---- MODULE Spec2Model ----
(***************************************************************************)
(* Model of the Copilot plugin MCP server (plugin-server.js, with the      *)
(* plugin manager it requires, and the same backend layer as found in      *)
(* optimized-proxy.js).                                                    *)
(* The last part models proxy-server.js, the earlier proxy of the same     *)
(* backend, with its own state (SpecProxy).                                *)
(*                                                                         *)
(* One step of the model is one macrotask of the Node.js event loop: a     *)
(* 'data' event of the backend's stdout, a 'data' event of stdin, a timer  *)
(* callback, a signal.  The promise continuations a macrotask schedules    *)
(* run before the next macrotask; they are either folded into the step     *)
(* (settling a backend call writes the client reply) or taken by RunLine,  *)
(* which has priority over every macrotask (see Idle).                     *)
(***************************************************************************)
EXTENDS Integers, Sequences, FiniteSets, TLC

\* ---------------------------------------------------------------- bounds
MaxReqs == 2        \* client requests read from stdin in one run
MaxStream == 5      \* bytes the backend writes in one run
MaxWords == 4       \* words of a tool description
MaxPasses == 2      \* times a description is compressed
MaxProxyCalls == 3  \* proxy-server.js: requests written to the backend in one run
MaxNoise == 1       \* proxy-server.js: lines of the backend that are no JSON

\* ------------------------------------------------------ program constants
INIT_TIMEOUT == 10000
LIST_TIMEOUT == 5000
CALL_TIMEOUT == 30000
INIT_ID == 1
LIST_ID == 2
METHOD_NOT_FOUND == 0 - 32601
INTERNAL_ERROR == 0 - 32603
\* Date.now() when the process starts, counted from a later epoch than 1970
\* to fit TLC's integers; Date.now() is StartEpoch + now
StartEpoch == 1000000

\* ---------------------------------------------------------------- names
\* A name is a sequence of tokens, so that String.prototype.startsWith is a
\* prefix test on sequences.
StartsWith(s, p) == Len(p) <= Len(s) /\ SubSeq(s, 1, Len(p)) = p

NoName == << >>
PluginPrefix == <<"plugin", "_">>
Separator == <<"_">>

PluginListName == <<"plugin", "_", "list">>
PluginInstallName == <<"plugin", "_", "install">>
PluginUninstallName == <<"plugin", "_", "uninstall">>
PluginEnableName == <<"plugin", "_", "enable">>
PluginDisableName == <<"plugin", "_", "disable">>
PluginInfoName == <<"plugin", "_", "info">>

\* getPluginManagementTools(): the six management tools, in source order
getPluginManagementTools ==
    << PluginListName, PluginInstallName, PluginUninstallName,
       PluginEnableName, PluginDisableName, PluginInfoName >>

\* the backend's catalogue (result.tools of its tools/list reply)
BackendCatalog == << [name |-> <<"get", "_", "me">>, compressed |-> FALSE] >>

\* ---------------------------------------------------- plugin repositories
\* An install spec is a token sequence such as <<"@", "acme", "/", "tools">>.
SpecAcme == <<"@", "acme", "/", "tools">>
SpecAcmeSub == <<"@", "acme", "/", "tools", "/", "sub">>
SpecGet == <<"@", "octo", "/", "get">>
SpecPlugin == <<"@", "octo", "/", "plugin">>
SpecNoSub == <<"@", "acme", "/", "tools", "/", "nope">>
SpecBare == <<"@", "acme", "/", "bare">>
SpecBroken == <<"@", "acme", "/", "broken">>
\* two plugins of one repository: in the directory x/y and in the directory x-y
SpecSubSlash == <<"@", "acme", "/", "tools", "/", "x", "/", "y">>
SpecSubDash == <<"@", "acme", "/", "tools", "/", "x", "-", "y">>

\* a manifest field that plugin.json does not have
Absent == "absent"

\* What a clone of the spec's repository holds at the subpath: whether the
\* directory exists, its plugin.json ("none": no such file, "bad": not
\* JSON), the manifest's namespace and version, whether package.json exists.
Repository(spec) ==
    CASE spec = SpecAcme ->
            [dir |-> TRUE, json |-> "ok", namespace |-> << >>, version |-> Absent,
             package |-> TRUE]
      [] spec = SpecAcmeSub ->
            [dir |-> TRUE, json |-> "ok", namespace |-> << >>, version |-> "2.0.0",
             package |-> TRUE]
      [] spec = SpecGet ->
            [dir |-> TRUE, json |-> "ok", namespace |-> <<"get">>, version |-> "0.1.0",
             package |-> FALSE]
      [] spec = SpecPlugin ->
            [dir |-> TRUE, json |-> "ok", namespace |-> <<"plugin">>, version |-> Absent,
             package |-> FALSE]
      [] spec = SpecBare ->
            [dir |-> TRUE, json |-> "none", namespace |-> << >>, version |-> Absent,
             package |-> TRUE]
      [] spec = SpecBroken ->
            [dir |-> TRUE, json |-> "bad", namespace |-> << >>, version |-> Absent,
             package |-> TRUE]
      [] spec \in { SpecSubSlash, SpecSubDash } ->
            [dir |-> TRUE, json |-> "ok", namespace |-> << >>, version |-> Absent,
             package |-> FALSE]
      [] OTHER ->
            [dir |-> FALSE, json |-> "none", namespace |-> << >>, version |-> Absent,
             package |-> FALSE]

\* the plugins of the fixture by installed name; each has an index.js that
\* loads, with getTools() and executeTool() and no exported manifest
AcmeTools == <<"acme", "-", "tools">>
AcmeToolsSub == <<"acme", "-", "tools", "-", "sub">>
OctoGet == <<"octo", "-", "get">>
OctoPlugin == <<"octo", "-", "plugin">>
PluginNames == { AcmeTools, AcmeToolsSub, OctoGet, OctoPlugin }

\* plugins that do not work: acme-noindex has no index.js, the index.js of
\* acme-crash throws when it is required, acme-flaky loads and its
\* getTools() throws
AcmeNoIndex == <<"acme", "-", "noindex">>
AcmeCrash == <<"acme", "-", "crash">>
AcmeFlaky == <<"acme", "-", "flaky">>
SpecNoIndex == <<"@", "acme", "/", "noindex">>
SpecCrash == <<"@", "acme", "/", "crash">>
SpecFlaky == <<"@", "acme", "/", "flaky">>

\* module.getTools(): the unqualified tool names
ModuleTools(p) ==
    CASE p = OctoGet -> << <<"me">> >>
      [] p = OctoPlugin -> << <<"list">> >>
      [] OTHER -> << <<"hello">> >>

SeqToSet(s) == { s[i] : i \in 1..Len(s) }

VARIABLES
    phase,          \* "starting" | "discovering" | "ready" | "exited"
    exitCode,       \* process.exit code, -1 while running
    now,            \* ms since the process started
    backendAlive,   \* the child process runs
    killSent,       \* githubMcp.kill() was called
    toBackend,      \* what was written to githubMcp.stdin, in order
    replied,        \* indices of toBackend the backend has answered
    mcpHandlers,    \* keys of the mcpHandlers Map
    nextHandlerId,
    calls,          \* per handler id: the closure of its Promise executor
    timers,         \* handler ids whose setTimeout has not fired yet
    invoked,        \* for the last backend message: the handlers called, what each did
    githubTools,
    reqs,           \* client requests read from stdin, in arrival order
    stdout,         \* replies written to process.stdout, in order
    stdinEnded,     \* the client has closed the server's stdin
    store,          \* metadata.plugins of plugins.json, in key order
    loadedPlugins,  \* keys of pluginManager.loadedPlugins, in insertion order
    disk,           \* the directories in pluginDir
    called,         \* the PluginManager method a caller invoked last, with its outcome
    pipe,           \* the bytes the backend wrote to its stdout
    taken,          \* how many of them 'data' events have delivered
    mcpBuffer,      \* the characters of the last, unfinished line
    heard,          \* the messages handleGitHubMcpOutput parsed, in order
    description,    \* a tool description as the backend gives it
    passes,         \* compressDescription applied to it once, twice, ...
    githubMcpReady, \* proxy-server.js: this.githubMcpReady
    jsonRpcId,      \* proxy-server.js: this.jsonRpcId
    mcpStdin,       \* proxy-server.js: what was written to githubMcp.stdin
    proxyCalls,     \* proxy-server.js: per request id, the closure of the call
    mcpWritten,     \* proxy-server.js: what the backend wrote to its stdout
    mcpDelivered,   \* proxy-server.js: how much of it 'data' events have delivered
    mcpExited,      \* proxy-server.js: the 'exit' listener has run
    serving         \* proxy-server.js: run() has connected the client transport

vars == << phase, exitCode, now, backendAlive, killSent, toBackend, replied,
           mcpHandlers, nextHandlerId, calls, timers, invoked, githubTools, reqs,
           stdout, stdinEnded, store, loadedPlugins, disk, called, pipe, taken, mcpBuffer, heard,
           description, passes, githubMcpReady, jsonRpcId, mcpStdin, proxyCalls,
           mcpWritten, mcpDelivered, mcpExited, serving >>

backendVars == << toBackend, mcpHandlers, nextHandlerId, calls, timers >>
clientVars == << reqs, stdout >>
pluginVars == << store, loadedPlugins, disk >>
framingVars == << pipe, taken, mcpBuffer, heard >>
textVars == << description, passes >>
\* what the server's event handlers leave alone: the manager's direct
\* callers, the byte level of the backend pipe, the descriptions
proxyVars == << githubMcpReady, jsonRpcId, mcpStdin, proxyCalls, mcpWritten,
               mcpDelivered, mcpExited, serving >>
asideVars == << called, pipe, taken, mcpBuffer, heard, description, passes, proxyVars >>
\* plugin-server.js as a whole
serverVars == << phase, exitCode, now, backendAlive, killSent, toBackend, replied,
                 mcpHandlers, nextHandlerId, calls, timers, invoked, githubTools,
                 reqs, stdout, stdinEnded >>

\* ------------------------------------------------------------------ clock
\* Date.now()
DateNow == StartEpoch + now


\* ------------------------------------------------- plugin manager (store)
\* A record of metadata.plugins: the key, the enabled flag, the manifest's
\* namespace, the spec it was installed from and the recorded version.
StoreRecord(n, en, ns, spec, version) ==
    [name |-> n, enabled |-> en, namespace |-> ns, spec |-> spec, version |-> version]

HasRecord(st, n) == \E i \in 1..Len(st) : st[i].name = n

\* names every object inherits from Object.prototype
ObjectPrototypeKeys == { <<"constructor">>, <<"toString">> }

\* metadata.plugins[name] is truthy: plugins is a plain object, so the
\* lookup finds the records and what the object inherits
Lookup(st, n) == HasRecord(st, n) \/ n \in ObjectPrototypeKeys
RecordOf(st, n) == st[CHOOSE i \in 1..Len(st) : st[i].name = n]
WithoutRecord(st, n) == SelectSeq(st, LAMBDA x : x.name # n)
SetEnabled(st, n, en) ==
    [i \in 1..Len(st) |-> IF st[i].name = n THEN [st[i] EXCEPT !.enabled = en] ELSE st[i]]

\* the plugins whose index.js exists and loads
Loadable == PluginNames \cup { AcmeFlaky }

\* the loaded plugins whose getTools() throws
GetToolsThrows == { AcmeFlaky }

\* Map.prototype.set on loadedPlugins (entries [name, namespace], the
\* namespace being the manifest's at load time): a new key goes last, an
\* existing key keeps its place and takes the new value
MapSet(loaded, e) ==
    IF \E i \in 1..Len(loaded) : loaded[i].name = e.name
    THEN [i \in 1..Len(loaded) |-> IF loaded[i].name = e.name THEN e ELSE loaded[i]]
    ELSE Append(loaded, e)

\* Map.prototype.delete
MapDelete(loaded, n) == SelectSeq(loaded, LAMBDA x : x.name # n)

\* the loop of loadPlugins with its try around the whole loop: the first
\* plugin that fails ends the pass
RECURSIVE loadFrom_StopsAtFailure(_, _, _)
loadFrom_StopsAtFailure(st, i, loaded) ==
    IF i > Len(st) THEN loaded
    ELSE IF st[i].enabled /\ st[i].name \notin Loadable THEN loaded
    ELSE loadFrom_StopsAtFailure(st, i + 1,
                  IF st[i].enabled
                  THEN MapSet(loaded, [name |-> st[i].name, namespace |-> st[i].namespace])
                  ELSE loaded)

\* the loop of loadPlugins over the enabled records, in key order: a
\* record whose index.js is missing (continue) or throws (catch) is skipped
RECURSIVE loadFrom(_, _, _)
loadFrom(st, i, loaded) ==
    IF i > Len(st) THEN loaded
    ELSE loadFrom(st, i + 1,
                  IF st[i].enabled /\ st[i].name \in Loadable
                  THEN MapSet(loaded, [name |-> st[i].name, namespace |-> st[i].namespace])
                  ELSE loaded)

\* loadPlugins(): every enabled record whose entry point loads is set in
\* loadedPlugins; the Map is not cleared first
loadPlugins(st, loaded) == loadFrom(st, 1, loaded)

\* the qualified names of one loaded plugin's tools:
\* `${manifest.namespace || name}_${tool.name}`, tagged with pluginName
QualifiedTools(e) ==
    LET ns == IF e.namespace # NoName THEN e.namespace ELSE e.name
        ts == ModuleTools(e.name)
    IN  [i \in 1..Len(ts) |-> [name |-> ns \o Separator \o ts[i], pluginName |-> e.name]]

\* the loop of getPluginTools with its try around the whole loop: the
\* first getTools() that throws ends the aggregation
RECURSIVE toolsFrom_EndsAtThrow(_, _)
toolsFrom_EndsAtThrow(loaded, i) ==
    IF i > Len(loaded) \/ loaded[i].name \in GetToolsThrows THEN << >>
    ELSE QualifiedTools(loaded[i]) \o toolsFrom_EndsAtThrow(loaded, i + 1)

\* the loop of getPluginTools: a plugin whose getTools() throws pushes
\* nothing (catch), the loop goes on
RECURSIVE toolsFrom(_, _)
toolsFrom(loaded, i) ==
    IF i > Len(loaded) THEN << >>
    ELSE (IF loaded[i].name \in GetToolsThrows THEN << >>
          ELSE QualifiedTools(loaded[i])) \o toolsFrom(loaded, i + 1)

\* getPluginTools(): the tools of the loaded plugins, in Map order
getPluginTools(loaded) == toolsFrom(loaded, 1)

ToolNames(tools) == [i \in 1..Len(tools) |-> tools[i].name]

\* module.manifest?.namespace: the namespace the module itself exports
\* (undefined for the fixture's modules: plugin.json is not part of the
\* module); startsWith(undefined) tests the prefix "undefined"
ModuleNamespace(p) == <<"undefined">>

\* executePluginTool(): the first loaded plugin, in Map order, whose name
\* or whose module's namespace is a prefix of toolName executes it; env is
\* what the plugin's executeTool does; by is the plugin that was called
executePluginTool(loaded, toolName, env) ==
    LET owns(i) == \/ StartsWith(toolName, loaded[i].name)
                   \/ StartsWith(toolName, ModuleNamespace(loaded[i].name))
        found == { i \in 1..Len(loaded) : owns(i) }
    IN  IF found # {}
        THEN [ok |-> env # "throw",
              msg |-> IF env # "throw" THEN "plugin result" ELSE "plugin error",
              by |-> loaded[CHOOSE i \in found : \A j \in found : i <= j].name]
        ELSE [ok |-> FALSE, msg |-> "No plugin found to handle tool", by |-> NoName]

\* ------------------------------------------------------ install specs
\* /^@([^/]+)\/([^/]+)(?:\/(.+))?$/ on the tokens of a spec
ValidSpec_TrailingSlash(spec) ==
    /\ Len(spec) >= 4
    /\ spec[1] = "@" /\ spec[2] # "/" /\ spec[3] = "/" /\ spec[4] # "/"
    /\ Len(spec) >= 5 => spec[5] = "/"

\* /^@([^/]+)\/([^/]+)(?:\/(.+))?$/
ValidSpec(spec) ==
    /\ Len(spec) >= 4
    /\ spec[1] = "@" /\ spec[2] # "/" /\ spec[3] = "/" /\ spec[4] # "/"
    /\ Len(spec) # 5
    /\ Len(spec) >= 6 => spec[5] = "/"

\* owner-repo, or owner-repo-subpath with every "/" of the subpath a "-"
PluginNameOf(spec) ==
    LET sub == SubSeq(spec, 6, Len(spec))
    IN  <<spec[2], "-", spec[4]>> \o
        (IF Len(sub) = 0 THEN << >>
         ELSE <<"-">> \o [i \in 1..Len(sub) |-> IF sub[i] = "/" THEN "-" ELSE sub[i]])

Undefined == <<"undefined">>

\* path.join(this.pluginDir, `_temp_${Date.now()}`)
TempDir == <<"_temp">>

DefaultVersion == "1.0.0"

\* manifest.version as written into the record
RecordedVersion_Raw(version) == version

\* manifest.version || '1.0.0'
RecordedVersion(version) == IF version = Absent THEN DefaultVersion ELSE version

\* installPlugin(spec) on the store and the disk.  env is what the outside
\* does: "throw" git clone fails, "npm" npm install fails, "save" the write
\* of plugins.json fails.  checks: whether the existing record is looked
\* up; cleans: whether the catch block removes the directories.
InstallWith(checks, cleans, st, dk, spec, env) ==
    LET name == PluginNameOf(spec)
        repo == Repository(spec)
        thrown(m, d) == [ok |-> FALSE, msg |-> m, store |-> st, disk |-> d]
        \* catch (error): rmSync(pluginPath), rmSync(tempDir) where they exist
        caught(m, d) == thrown(m, IF cleans THEN d \ {name, TempDir} ELSE d)
        cloned == dk \cup {TempDir}
        \* renameSync(sourceDir, pluginPath): the subpath, or the clone itself
        renamed == IF Len(spec) > 4 THEN cloned \cup {name}
                   ELSE (cloned \ {TempDir}) \cup {name}
        \* if (fs.existsSync(tempDir)) fs.rmSync(tempDir)
        moved == renamed \ {TempDir}
        record == StoreRecord(name, TRUE, repo.namespace, spec,
                              RecordedVersion(repo.version))
    IN
    IF spec = Undefined \/ ~ValidSpec(spec)
    THEN thrown("Invalid plugin spec", dk)
    ELSE IF checks /\ Lookup(st, name)
    THEN thrown("already installed", dk)
    ELSE IF env = "throw"
    THEN caught("clone failed", cloned)
    ELSE IF ~repo.dir
    THEN caught("Subpath not found", cloned)
    ELSE IF repo.json = "none"
    THEN caught("Plugin manifest (plugin.json) not found", moved)
    ELSE IF repo.json = "bad"
    THEN caught("SyntaxError", moved)
    ELSE IF repo.package /\ env = "npm"
    THEN caught("npm install failed", moved)
    ELSE IF env = "save"
    THEN caught("write failed", moved)
    ELSE [ok |-> TRUE, msg |-> "installed",
          store |-> IF HasRecord(st, name)
                    THEN [i \in 1..Len(st) |-> IF st[i].name = name THEN record ELSE st[i]]
                    ELSE Append(st, record),
          disk |-> moved]

\* installPlugin without its catch block
installPlugin_NoCleanup(st, dk, spec, env) == InstallWith(TRUE, FALSE, st, dk, spec, env)

\* installPlugin without its test of metadata.plugins[pluginName]
installPlugin_NoConflict(st, dk, spec, env) == InstallWith(FALSE, TRUE, st, dk, spec, env)

\* installPlugin(spec)
installPlugin(st, dk, spec, env) == InstallWith(TRUE, TRUE, st, dk, spec, env)

\* uninstallPlugin that deletes the record from the object it read and
\* never writes plugins.json
uninstallPlugin_NoSave(st, dk, n, env) ==
    IF ~Lookup(st, n)
    THEN [ok |-> FALSE, msg |-> "not found", store |-> st, disk |-> dk]
    ELSE [ok |-> TRUE, msg |-> "uninstalled", store |-> st, disk |-> dk \ {n}]

\* uninstallPlugin(name): rmSync(pluginPath) if it exists, then delete the
\* record and saveMetadata.  env = "save": the write of plugins.json
\* fails, after the directory was removed.
uninstallPlugin(st, dk, n, env) ==
    IF ~Lookup(st, n)
    THEN [ok |-> FALSE, msg |-> "not found", store |-> st, disk |-> dk]
    ELSE IF env = "save"
    THEN [ok |-> FALSE, msg |-> "write failed", store |-> st, disk |-> dk \ {n}]
    ELSE [ok |-> TRUE, msg |-> "uninstalled", store |-> WithoutRecord(st, n),
          disk |-> dk \ {n}]

\* enablePlugin(name) / disablePlugin(name); the flag set on an inherited
\* value is not written to plugins.json
setPluginEnabled(st, n, en) ==
    IF ~Lookup(st, n)
    THEN [ok |-> FALSE, msg |-> "not found", store |-> st]
    ELSE [ok |-> TRUE, msg |-> IF en THEN "enabled" ELSE "disabled",
          store |-> SetEnabled(st, n, en)]

\* getPluginInfo(name)
getPluginInfo(st, n) ==
    IF ~Lookup(st, n)
    THEN [ok |-> FALSE, msg |-> "not found"]
    ELSE [ok |-> TRUE, msg |-> "info"]

\* handlePluginTool(toolName, args): the outcome (returned or thrown), the
\* store and the loaded plugins afterwards.  args = Undefined makes every
\* case that reads args.spec or args.name throw a TypeError.  unloads:
\* whether plugin_disable deletes the plugin from loadedPlugins.
PluginToolWith(unloads, st, loaded, dk, toolName, arg, env) ==
    LET thrown(m) == [ok |-> FALSE, msg |-> m, store |-> st, loaded |-> loaded,
                      disk |-> dk]
    IN
    IF toolName = PluginListName
    THEN [ok |-> TRUE, msg |-> "list", store |-> st, loaded |-> loaded, disk |-> dk]
    ELSE IF toolName \notin SeqToSet(getPluginManagementTools)
    THEN thrown("Unknown plugin tool")
    ELSE IF arg = Undefined
    THEN thrown("TypeError")
    ELSE IF toolName = PluginInstallName
    THEN LET r == installPlugin(st, dk, arg, env)
         IN  [ok |-> r.ok, msg |-> r.msg, store |-> r.store,
              loaded |-> IF r.ok THEN loadPlugins(r.store, loaded) ELSE loaded,
              disk |-> r.disk]
    ELSE IF toolName = PluginUninstallName
    THEN LET r == uninstallPlugin(st, dk, arg, env)
         IN  [ok |-> r.ok, msg |-> r.msg, store |-> r.store,
              loaded |-> IF r.ok THEN MapDelete(loaded, arg) ELSE loaded,
              disk |-> r.disk]
    ELSE IF toolName = PluginEnableName
    THEN LET r == setPluginEnabled(st, arg, TRUE)
         IN  [ok |-> r.ok, msg |-> r.msg, store |-> r.store,
              loaded |-> IF r.ok THEN loadPlugins(r.store, loaded) ELSE loaded,
              disk |-> dk]
    ELSE IF toolName = PluginDisableName
    THEN LET r == setPluginEnabled(st, arg, FALSE)
         IN  [ok |-> r.ok, msg |-> r.msg, store |-> r.store,
              loaded |-> IF r.ok /\ unloads THEN MapDelete(loaded, arg) ELSE loaded,
              disk |-> dk]
    ELSE LET r == getPluginInfo(st, arg)
         IN  [ok |-> r.ok, msg |-> r.msg, store |-> st, loaded |-> loaded, disk |-> dk]

\* handlePluginTool without the loadedPlugins.delete of plugin_disable
handlePluginTool_NoUnload(st, loaded, dk, toolName, arg, env) ==
    PluginToolWith(FALSE, st, loaded, dk, toolName, arg, env)

\* handlePluginTool(toolName, args)
handlePluginTool(st, loaded, dk, toolName, arg, env) ==
    PluginToolWith(TRUE, st, loaded, dk, toolName, arg, env)

\* ------------------------------------------------- framing of the pipe
\* The bytes of the backend's stdout: a double quote, a space, a line
\* feed, and the two bytes C3 A9 that encode U+00E9 in UTF-8.
Quote == "\""
LineFeed == "\n"
Bytes == { Quote, " ", LineFeed, "C3", "A9" }

\* data.toString() of a Buffer: UTF-8 decoding; a byte sequence that is
\* not a complete character becomes U+FFFD
RECURSIVE BufferToString(_)
BufferToString(data) ==
    IF data = << >> THEN << >>
    ELSE IF data[1] = "C3" /\ Len(data) >= 2 /\ data[2] = "A9"
    THEN <<"U+00E9">> \o BufferToString(SubSeq(data, 3, Len(data)))
    ELSE IF data[1] \in {"C3", "A9"}
    THEN <<"U+FFFD">> \o BufferToString(Tail(data))
    ELSE <<data[1]>> \o BufferToString(Tail(data))

\* String.prototype.split('\n')
RECURSIVE Split(_)
Split(text) ==
    IF \A i \in 1..Len(text) : text[i] # LineFeed THEN << text >>
    ELSE LET k == CHOOSE i \in 1..Len(text) :
                      text[i] = LineFeed /\ \A j \in 1..(i - 1) : text[j] # LineFeed
         IN  << SubSeq(text, 1, k - 1) >> \o Split(SubSeq(text, k + 1, Len(text)))

\* String.prototype.trim()
RECURSIVE Trim(_)
Trim(text) ==
    IF text = << >> THEN text
    ELSE IF text[1] = " " THEN Trim(Tail(text))
    ELSE IF text[Len(text)] = " " THEN Trim(SubSeq(text, 1, Len(text) - 1))
    ELSE text

\* JSON.parse(line) for texts of these characters: the only JSON value
\* they can spell is a string, with white space around it; everything
\* else throws a SyntaxError
JSONParse(line) ==
    LET text == Trim(line)
        n == Len(text)
    IN  IF /\ n >= 2 /\ text[1] = Quote /\ text[n] = Quote
           /\ \A i \in 2..(n - 1) : text[i] # Quote
        THEN [ok |-> TRUE, value |-> SubSeq(text, 2, n - 1)]
        ELSE [ok |-> FALSE, value |-> << >>]

\* the for loop over the complete lines: a blank line is skipped, a line
\* that does not parse is ignored, a parsed message goes to the handlers
RECURSIVE ParsedLines(_, _)
ParsedLines(lines, i) ==
    IF i > Len(lines) THEN << >>
    ELSE (IF Trim(lines[i]) # << >> /\ JSONParse(lines[i]).ok
          THEN << JSONParse(lines[i]).value >> ELSE << >>)
         \o ParsedLines(lines, i + 1)

\* handleGitHubMcpOutput(data) on the buffer: mcpBuffer += data.toString();
\* lines = mcpBuffer.split('\n'); mcpBuffer = lines.pop() || ''
FeedMcpBuffer(buffer, data) ==
    LET lines == Split(buffer \o BufferToString(data))
    IN  [mcpBuffer |-> lines[Len(lines)],
         messages |-> ParsedLines(SubSeq(lines, 1, Len(lines) - 1), 1)]

\* ------------------------------------------------- description compression
\* A description is a sequence of characters.  The patterns of
\* compressDescription have the i flag: they are written in lower case and
\* compared with the folded character.
Fold(c) == CASE c = "P" -> "p" [] c = "R" -> "r" [] OTHER -> c

MatchesAt(text, i, pat) ==
    /\ i + Len(pat) - 1 <= Len(text)
    /\ \A k \in 1..Len(pat) : Fold(text[i + k - 1]) = pat[k]

Least(S) == CHOOSE x \in S : \A y \in S : x <= y

\* String.prototype.replace(/p1|p2|.../gi, to) from position i: the scan
\* finds the leftmost position where an alternative matches, replaces the
\* first alternative that matches there and goes on behind it
RECURSIVE ReplaceFrom(_, _, _, _)
ReplaceFrom(text, i, pats, to) ==
    LET at(j) == { k \in 1..Len(pats) : MatchesAt(text, j, pats[k]) }
        found == { j \in i..Len(text) : at(j) # {} }
    IN  IF found = {} THEN SubSeq(text, i, Len(text))
        ELSE LET j == Least(found)
             IN  SubSeq(text, i, j - 1) \o to
                     \o ReplaceFrom(text, j + Len(pats[Least(at(j))]), pats, to)

ReplaceAll(text, pats, to) == ReplaceFrom(text, 1, pats, to)

\* /This tool (allows you to|enables you to|lets you|helps you)/gi
ThisToolPatterns ==
    << <<"t", "h", "i", "s", " ", "t", "o", "o", "l", " ", "a", "l", "l", "o",
         "w", "s", " ", "y", "o", "u", " ", "t", "o">>,
       <<"t", "h", "i", "s", " ", "t", "o", "o", "l", " ", "e", "n", "a", "b",
         "l", "e", "s", " ", "y", "o", "u", " ", "t", "o">>,
       <<"t", "h", "i", "s", " ", "t", "o", "o", "l", " ", "l", "e", "t", "s",
         " ", "y", "o", "u">>,
       <<"t", "h", "i", "s", " ", "t", "o", "o", "l", " ", "h", "e", "l", "p",
         "s", " ", "y", "o", "u">> >>

\* /Use this tool (when|to)/gi
UseThisToolPatterns ==
    << <<"u", "s", "e", " ", "t", "h", "i", "s", " ", "t", "o", "o", "l", " ",
         "w", "h", "e", "n">>,
       <<"u", "s", "e", " ", "t", "h", "i", "s", " ", "t", "o", "o", "l", " ",
         "t", "o">> >>

\* the six replacements of compressDescription, in the order of the source
PhraseRules ==
    << [pats |-> ThisToolPatterns, to |-> << >>],
       [pats |-> UseThisToolPatterns, to |-> << >>],
       [pats |-> << <<"g", "i", "t", "h", "u", "b", " ", "r", "e", "p", "o", "s", "i", "t", "o", "r", "y">> >>,
        to |-> <<"r", "e", "p", "o">>],
       [pats |-> << <<"p", "u", "l", "l", " ", "r", "e", "q", "u", "e", "s", "t">> >>, to |-> <<"P", "R">>],
       [pats |-> << <<"r", "e", "p", "o", "s", "i", "t", "o", "r", "i", "e", "s">> >>,
        to |-> <<"r", "e", "p", "o", "s">>],
       [pats |-> << <<"c", "o", "m", "m", "i", "t", " ", "s", "h", "a">> >>,
        to |-> <<"c", "o", "m", "m", "i", "t">>] >>

RECURSIVE ApplyRules(_, _)
ApplyRules(text, i) ==
    IF i > Len(PhraseRules) THEN text
    ELSE ApplyRules(ReplaceAll(text, PhraseRules[i].pats, PhraseRules[i].to), i + 1)

\* .replace(/\s+/g, ' ') from position i: a space that follows a space is
\* dropped
RECURSIVE CollapseSpaces(_, _)
CollapseSpaces(text, i) ==
    LET extra == { j \in i..Len(text) : j > 1 /\ text[j] = " " /\ text[j - 1] = " " }
    IN  IF extra = {} THEN SubSeq(text, i, Len(text))
        ELSE SubSeq(text, i, Least(extra) - 1) \o CollapseSpaces(text, Least(extra) + 1)

\* .split(/[.!?]/)[0]
FirstSentence(text) ==
    LET ends == { i \in 1..Len(text) : text[i] \in {".", "!", "?"} }
    IN  IF ends = {} THEN text ELSE SubSeq(text, 1, Least(ends) - 1)

\* firstSentence.length > 100 ? firstSentence.substring(0, 100) : firstSentence
MaxDescription == 100

\* compressDescription(desc) of plugin-server.js
compressDescription(desc) ==
    IF desc = << >> THEN << >>
    ELSE LET compressed == Trim(CollapseSpaces(ApplyRules(desc, 1), 1))
             firstSentence == FirstSentence(compressed)
         IN  IF Len(firstSentence) > MaxDescription
             THEN SubSeq(firstSentence, 1, MaxDescription)
             ELSE firstSentence

\* the words descriptions are made of here, and a word of 99 characters
Words ==
    { <<"a">>, <<" ">>, <<".">>, <<"c", "o", "m", "m", "i", "t">>, <<"s", "h", "a">> }

LongWord == [i \in 1..(MaxDescription - 1) |-> "x"]

RECURSIVE Flatten(_)
Flatten(ws) == IF ws = << >> THEN << >> ELSE Head(ws) \o Flatten(Tail(ws))

\* the descriptions the backend's tools can have: up to MaxWords words,
\* after the long word or not
Descriptions ==
    { head \o Flatten(ws) :
        head \in { << >>, LongWord },
        ws \in UNION { [1..n -> Words] : n \in 0..MaxWords } }

\* ---------------------------------------------- backend correlation layer
\* The state of the layer as one value, so that one step can apply several
\* operations in program order.
Backend == [toBackend |-> toBackend, mcpHandlers |-> mcpHandlers,
            nextHandlerId |-> nextHandlerId, calls |-> calls, timers |-> timers]

SetBackend(next) ==
    \E B \in {next} :
        /\ toBackend' = B.toBackend
        /\ mcpHandlers' = B.mcpHandlers
        /\ nextHandlerId' = B.nextHandlerId
        /\ calls' = B.calls
        /\ timers' = B.timers

\* githubMcp.stdin.write(JSON.stringify(message) + '\n'); id 0 is a
\* notification, alive records whether the child still ran (what is
\* written to a child that has exited is lost: its pipe is closed)
Written(B, method, id) ==
    [B EXCEPT !.toBackend = Append(@, [method |-> method, id |-> id, alive |-> backendAlive])]

\* registerMcpHandler(handler): const id = nextHandlerId++; handlers.set(id, handler)
registerMcpHandler(B, closure) ==
    [B EXCEPT !.mcpHandlers = @ \cup {B.nextHandlerId},
              !.nextHandlerId = @ + 1,
              !.calls = [h \in 0..B.nextHandlerId |->
                            IF h < B.nextHandlerId THEN B.calls[h] ELSE closure]]

\* unregisterMcpHandler(id)
unregisterMcpHandler(B, id) == [B EXCEPT !.mcpHandlers = @ \ {id}]

\* setTimeout(..., ms) of the call with handler id h
setTimeout(B, h) == [B EXCEPT !.timers = @ \cup {h}]

\* The body shared by startGitHubMcp, queryGitHubTools and callGitHubTool:
\* new Promise: register the handler, write the request, arm the timer.
\*   kind      "init" | "list" | "call"
\*   id        the JSON-RPC id of the request
\*   req       the client request awaiting it (0: main)
\*   msg       the index of the request in toBackend
\*   events    which of {reply handler, timeout} acted on the call, in order
\*   by        the index in toBackend of the request whose reply the handler took
\*   got       what the handler saw in it (a call's handler only tests message.error)
SendRequest(B, kind, method, id, ms, req) ==
    LET closure == [kind |-> kind, id |-> id, deadline |-> now + ms, req |-> req,
                    msg |-> Len(B.toBackend) + 1, responseReceived |-> FALSE,
                    promise |-> "pending", events |-> << >>, by |-> 0, got |-> "none"]
    IN  setTimeout(Written(registerMcpHandler(B, closure), method, id), B.nextHandlerId)

\* startGitHubMcp(), up to the end of the Promise executor
startGitHubMcp(B) == SendRequest(B, "init", "initialize", INIT_ID, INIT_TIMEOUT, 0)

\* queryGitHubTools()
queryGitHubTools(B) == SendRequest(B, "list", "tools/list", LIST_ID, LIST_TIMEOUT, 0)

\* callGitHubTool(toolName, args): const callId = Date.now()
callGitHubTool(B, req) == SendRequest(B, "call", "tools/call", DateNow, CALL_TIMEOUT, req)

\* A backend message: its id and what it carries ("caps": a result with
\* capabilities, "tools": a result with tools, "result": another result,
\* "error": an error); for is the index in toBackend of the request it answers.
Shapes == {"caps", "tools", "result", "error"}

\* the init handler without its test of result.capabilities
HandlerMatches_AnyReply(c, m) ==
    CASE c.kind = "init" -> m.id = INIT_ID
      [] c.kind = "list" -> m.id = LIST_ID /\ m.shape = "tools"
      [] OTHER -> m.id = c.id

\* the test each handler makes on a message
HandlerMatches(c, m) ==
    CASE c.kind = "init" -> m.id = INIT_ID /\ m.shape = "caps"
      [] c.kind = "list" -> m.id = LIST_ID /\ m.shape = "tools"
      [] OTHER -> m.id = c.id

\* resolve()/reject() of a promise: only the first call counts
Settle(c, to) == IF c.promise = "pending" THEN to ELSE c.promise

\* what a matching handler does to its closure
HandlerFires(c, m) ==
    [c EXCEPT !.responseReceived = TRUE,
              !.promise = Settle(c, IF c.kind = "call" /\ m.shape = "error"
                                    THEN "rejected" ELSE "resolved"),
              !.events = Append(@, "reply"),
              !.by = m.for,
              !.got = IF c.kind # "call" THEN m.shape
                      ELSE IF m.shape = "error" THEN "error" ELSE "result"]

\* what handler(message) does: the handlers read message.id first, which
\* throws a TypeError when the line parsed to null
HandlerReturns(c, m) ==
    IF m.shape = "null" THEN "threw"
    ELSE IF HandlerMatches(c, m) THEN "true" ELSE "false"

\* the loop over mcpHandlers with one try around the loop: the first
\* handler that throws ends the dispatch of the message
RECURSIVE HandlerCallsFrom_StopsAtThrow(_, _, _)
HandlerCallsFrom_StopsAtThrow(B, m, h) ==
    IF h >= B.nextHandlerId THEN << >>
    ELSE IF h \notin B.mcpHandlers THEN HandlerCallsFrom_StopsAtThrow(B, m, h + 1)
    ELSE << [handler |-> h, returned |-> HandlerReturns(B.calls[h], m)] >>
         \o (IF HandlerReturns(B.calls[h], m) = "threw" THEN << >>
             ELSE HandlerCallsFrom_StopsAtThrow(B, m, h + 1))

\* for (const [id, handler] of mcpHandlers) { try { handler(message) ... }
\* catch }: the handlers are called in the order of their registration,
\* each in its own try
RECURSIVE HandlerCallsFrom(_, _, _)
HandlerCallsFrom(B, m, h) ==
    IF h >= B.nextHandlerId THEN << >>
    ELSE (IF h \in B.mcpHandlers
          THEN << [handler |-> h, returned |-> HandlerReturns(B.calls[h], m)] >>
          ELSE << >>) \o HandlerCallsFrom(B, m, h + 1)

HandlerCalls(B, m) == HandlerCallsFrom(B, m, 0)

\* handleGitHubMcpOutput for one complete line: every registered handler is
\* called with the message; a handler that returns true is deleted
handleGitHubMcpOutput(B, m) ==
    LET done == HandlerCalls(B, m)
        fired == { done[k].handler : k \in { x \in 1..Len(done) : done[x].returned = "true" } }
        B1 == [B EXCEPT !.mcpHandlers = @ \ fired,
                        !.calls = [h \in DOMAIN B.calls |->
                                      IF h \in fired THEN HandlerFires(B.calls[h], m)
                                      ELSE B.calls[h]]]
    IN  \* the init handler sends notifications/initialized before it resolves
        IF \E h \in fired : B.calls[h].kind = "init"
        THEN Written(B1, "notifications/initialized", 0)
        ELSE B1

\* the callback without its test of responseReceived
TimeoutCallback_Unchecked(B, h) ==
    [unregisterMcpHandler(B, h) EXCEPT
        !.calls[h].promise = Settle(B.calls[h], "rejected"),
        !.calls[h].events = Append(@, "timeout")]

\* the callback without its reject()
TimeoutCallback_NoReject(B, h) ==
    IF ~B.calls[h].responseReceived
    THEN [unregisterMcpHandler(B, h) EXCEPT !.calls[h].events = Append(@, "timeout")]
    ELSE B

\* the setTimeout callback of call h: if (!responseReceived) { unregister; reject }
TimeoutCallback(B, h) ==
    IF ~B.calls[h].responseReceived
    THEN [unregisterMcpHandler(B, h) EXCEPT
              !.calls[h].promise = Settle(B.calls[h], "rejected"),
              !.calls[h].events = Append(@, "timeout")]
    ELSE B


\* --------------------------------------------------------- the dispatcher
\* A client request: its method, whether it has params, params.name and
\* params.arguments (Undefined when absent).  method "null" is the JSON
\* value null.
Request(method, params, name, arg) ==
    [method |-> method, params |-> params, name |-> name, arg |-> arg]

ToolCall(name, arg) == Request("tools/call", TRUE, name, arg)

\* a reply written to stdout: the request it answers (its id), the error
\* code (0: a result), what it says, the backend request whose reply it
\* relays (0: none) and the tools of a tools/list result
Reply(r, code, msg, src, tools) ==
    [id |-> r, code |-> code, msg |-> msg, src |-> src, tools |-> tools]

\* optimizeTools that leaves out the tools it did not compress before
optimizeTools_SkipsUncompressed(tools) == SelectSeq(tools, LAMBDA t : t.compressed)

\* optimizeTools(githubTools): same tools, same order, compressed texts
optimizeTools(tools) ==
    [i \in 1..Len(tools) |-> [name |-> tools[i].name, compressed |-> TRUE]]

\* the branch of handleRequest a request takes
Route(k, loaded) ==
    CASE k.method = "null" -> "dropped"
      [] k.method = "initialize" -> "initialize"
      [] k.method = "tools/list" -> "tools/list"
      [] k.method = "tools/call" ->
            IF ~k.params \/ k.name = Undefined THEN "typeerror"
            ELSE IF StartsWith(k.name, PluginPrefix) THEN "management"
            ELSE IF k.name \in SeqToSet(ToolNames(getPluginTools(loaded))) THEN "plugin"
            ELSE "backend"
      [] OTHER -> "notfound"

\* handleRequest for the branches that do not await the backend, with the
\* write of its reply: the replies written (none when the request is the
\* JSON value null, which throws before the try block and is only logged),
\* the store and the loaded plugins afterwards, the branch taken and
\* whether something was thrown in it; caught is the code the catch block
\* replies with
HandleWith(caught, r, k, st, loaded, dk, tools, env) ==
    LET route == Route(k, loaded)
        same(rep, threw) == [out |-> rep, store |-> st, loaded |-> loaded,
                             disk |-> dk, route |-> route, threw |-> threw]
    IN
    CASE route = "dropped" -> same(<< >>, TRUE)
      [] route = "initialize" -> same(<<Reply(r, 0, "initialize", 0, << >>)>>, FALSE)
      [] route = "tools/list" ->
            same(<<Reply(r, 0, "tools", 0,
                         ToolNames(optimizeTools(tools)) \o getPluginManagementTools
                             \o ToolNames(getPluginTools(loaded)))>>, FALSE)
      [] route = "typeerror" ->
            same(<<Reply(r, caught, "TypeError", 0, << >>)>>, TRUE)
      [] route = "management" ->
            LET res == handlePluginTool(st, loaded, dk, k.name, k.arg, env)
            IN  [out |-> <<Reply(r, IF res.ok THEN 0 ELSE caught, res.msg, 0, << >>)>>,
                 store |-> res.store, loaded |-> res.loaded, disk |-> res.disk,
                 route |-> route, threw |-> ~res.ok]
      [] route = "plugin" ->
            LET res == executePluginTool(loaded, k.name, env)
            IN  same(<<Reply(r, IF res.ok THEN 0 ELSE caught, res.msg, 0, << >>)>>,
                     ~res.ok)
      [] OTHER -> same(<<Reply(r, METHOD_NOT_FOUND, "Method not found", 0, << >>)>>, FALSE)

\* handleRequest with the catch block's code mistaken for that of the
\* default case
handleRequest_WrongCode(r, k, st, loaded, dk, tools, env) ==
    HandleWith(METHOD_NOT_FOUND, r, k, st, loaded, dk, tools, env)

\* handleRequest: catch (error) { ... code: -32603 ... }
handleRequest(r, k, st, loaded, dk, tools, env) ==
    HandleWith(INTERNAL_ERROR, r, k, st, loaded, dk, tools, env)

\* the reply handleRequest returns once its callGitHubTool has settled
CallReply(c) ==
    IF c.promise = "resolved" THEN Reply(c.req, 0, "result", c.by, << >>)
    ELSE IF c.events[Len(c.events)] = "timeout"
    THEN Reply(c.req, INTERNAL_ERROR, "Tool execution timeout", 0, << >>)
    ELSE Reply(c.req, INTERNAL_ERROR, "backend error", c.by, << >>)

\* the calls of client requests that B1 settled, in handler order
JustSettled(B0, B1) ==
    { h \in DOMAIN B0.calls :
        /\ B0.calls[h].kind = "call"
        /\ B0.calls[h].promise = "pending"
        /\ B1.calls[h].promise # "pending" }

RECURSIVE RepliesFrom(_, _, _)
RepliesFrom(B1, settled, h) ==
    IF h >= B1.nextHandlerId THEN << >>
    ELSE (IF h \in settled THEN <<CallReply(B1.calls[h])>> ELSE << >>)
         \o RepliesFrom(B1, settled, h + 1)

\* the continuations of the settled calls: each awaiting request gets its
\* reply written and is done
ResumeRequests(B0, B1) ==
    LET settled == JustSettled(B0, B1)
        done == { B1.calls[h].req : h \in settled }
    IN  /\ stdout' = stdout \o RepliesFrom(B1, settled, 0)
        /\ reqs' = [r \in 1..Len(reqs) |->
                       IF r \in done THEN [reqs[r] EXCEPT !.st = "done"] ELSE reqs[r]]

\* the for loop of the stdin 'data' handler awaits each line's reply before
\* it takes the next line of the same chunk
Runnable(r) ==
    /\ reqs[r].st = "queued"
    /\ \A q \in 1..(r - 1) : reqs[q].chunk = reqs[r].chunk => reqs[q].st = "done"

\* no promise continuation is ready to run
Idle == \A r \in 1..Len(reqs) : ~Runnable(r)

Running == phase # "exited"

\* process.exit(code)
Exit(code) == phase' = "exited" /\ exitCode' = code

\* main().catch with the exit code of a clean shutdown
StartupFailure_ExitZero == Exit(0)

\* main().catch: console.error('Fatal error'); process.exit(1)
StartupFailure == Exit(1)


\* ------------------------------------------------------------------ inputs
\* the states plugins.json can be in when the server starts
InitialStores ==
    { << StoreRecord(AcmeTools, TRUE, NoName, SpecAcme, DefaultVersion) >> }

\* the requests a client sends: one for each way handleRequest can end
Requests ==
    { Request("tools/list", FALSE, Undefined, Undefined),
      Request("bogus/method", FALSE, Undefined, Undefined),
      Request("tools/call", FALSE, Undefined, Undefined),
      ToolCall(PluginInfoName, Undefined),
      ToolCall(AcmeTools \o Separator \o <<"hello">>, Undefined),
      ToolCall(<<"get", "_", "me">>, Undefined),
      Request("null", FALSE, Undefined, Undefined) }

\* tools/call requests by where the name is known: a backend tool, a
\* management tool, and two names that no source has
RoutingRequests ==
    { ToolCall(<<"get", "_", "me">>, Undefined),
      ToolCall(PluginInfoName, AcmeTools),
      ToolCall(<<"plugin", "_", "nope">>, Undefined),
      ToolCall(<<"bogus", "_", "tool">>, Undefined) }

\* plugins.json with four plugins installed: one whose name is a prefix
\* of another's, and two whose manifests declare a namespace
ToolStores ==
    { << StoreRecord(AcmeTools, TRUE, NoName, SpecAcme, DefaultVersion),
         StoreRecord(AcmeToolsSub, TRUE, NoName, SpecAcmeSub, "2.0.0"),
         StoreRecord(OctoGet, TRUE, <<"get">>, SpecGet, "0.1.0"),
         StoreRecord(OctoPlugin, TRUE, <<"plugin">>, SpecPlugin, DefaultVersion) >> }

\* tools/list and a tools/call for each name the plugins of ToolStores offer
ToolRequests ==
    { Request("tools/list", FALSE, Undefined, Undefined),
      ToolCall(AcmeTools \o Separator \o <<"hello">>, Undefined),
      ToolCall(AcmeToolsSub \o Separator \o <<"hello">>, Undefined),
      ToolCall(<<"get", "_", "me">>, Undefined),
      ToolCall(PluginListName, Undefined) }

\* plugins.json with working and broken plugins, the broken ones before,
\* between and after the working ones
ManagerStores ==
    { << StoreRecord(AcmeCrash, TRUE, NoName, SpecCrash, DefaultVersion),
         StoreRecord(AcmeTools, TRUE, NoName, SpecAcme, DefaultVersion),
         StoreRecord(AcmeFlaky, TRUE, NoName, SpecFlaky, DefaultVersion),
         StoreRecord(AcmeToolsSub, FALSE, NoName, SpecAcmeSub, "2.0.0") >>,
      << StoreRecord(AcmeToolsSub, TRUE, NoName, SpecAcmeSub, "2.0.0"),
         StoreRecord(AcmeNoIndex, TRUE, NoName, SpecNoIndex, DefaultVersion),
         StoreRecord(AcmeTools, TRUE, NoName, SpecAcme, DefaultVersion) >> }

\* the names a caller passes to the manager: with a record, without one,
\* and one that every object inherits
ManagerNames == { AcmeTools, AcmeToolsSub, AcmeFlaky, <<"ghost">>, <<"constructor">> }

\* plugins.json with one plugin enabled and one disabled
LifecycleStores ==
    { << StoreRecord(AcmeTools, TRUE, NoName, SpecAcme, DefaultVersion),
         StoreRecord(AcmeToolsSub, FALSE, NoName, SpecAcmeSub, "2.0.0") >> }

\* tools/list and the management calls that change what is loaded, each
\* in a form that succeeds and in one that fails
LifecycleRequests ==
    { Request("tools/list", FALSE, Undefined, Undefined),
      ToolCall(PluginInstallName, SpecGet),
      ToolCall(PluginInstallName, SpecAcmeSub),
      ToolCall(PluginInstallName, SpecSubSlash),
      ToolCall(PluginInstallName, SpecSubDash),
      ToolCall(PluginEnableName, AcmeToolsSub),
      ToolCall(PluginEnableName, <<"ghost">>),
      ToolCall(PluginDisableName, AcmeTools),
      ToolCall(PluginUninstallName, AcmeTools) }

\* management calls pipelined with a call that waits for the backend
ConcurrentRequests ==
    { ToolCall(<<"get", "_", "me">>, Undefined),
      ToolCall(PluginInstallName, SpecGet),
      ToolCall(PluginEnableName, AcmeToolsSub),
      ToolCall(PluginDisableName, AcmeTools),
      ToolCall(PluginUninstallName, AcmeTools),
      ToolCall(PluginUninstallName, <<"ghost">>) }

\* a spec that is not of the form @owner/repo[/subpath]
SpecTrailingSlash == <<"@", "acme", "/", "tools", "/">>

\* plugin_install and plugin_uninstall calls: repositories that install,
\* that fail at each step, malformed and missing specs; names with and
\* without a record
InstallRequests ==
    { ToolCall(PluginInstallName, spec) :
        spec \in { SpecAcme, SpecAcmeSub, SpecNoSub, SpecBare, SpecBroken,
                   SpecTrailingSlash, Undefined } }
    \cup { ToolCall(PluginUninstallName, n) :
             n \in { AcmeTools, <<"ghost">>, <<"constructor">> } }

\* the chunks stdin can deliver: one or more complete lines, at most n
Chunks(R, n) == UNION { [1..k -> R] : k \in 1..n }

\* what the outside does when called: "ok" every call works; "throw" a
\* plugin's executeTool or git clone throws; "npm" npm install fails;
\* "save" the write of plugins.json fails
Outcomes == {"ok", "throw", "npm", "save"}

\* ------------------------------------------------ proxy-server.js
\* What the backend writes is a sequence of tokens.  A reply line is two
\* tokens, so that a chunk can end inside the line, and a line feed; a
\* noise line is text that is no JSON, and a line feed.
Token(id, shape, part) == [id |-> id, shape |-> shape, part |-> part]
Newline == Token(0, "lf", 0)
Noise == Token(0, "noise", 0)
ReplyLine(id, shape) == << Token(id, shape, 1), Token(id, shape, 2), Newline >>
NoiseLine == << Noise, Newline >>

\* responseBuffer.split('\n'): the pieces between the line feeds, the
\* unfinished rest last
RECURSIVE SplitLines(_)
SplitLines(buf) ==
    LET feeds == { i \in 1..Len(buf) : buf[i] = Newline }
    IN  IF feeds = {} THEN << buf >>
        ELSE LET i == CHOOSE x \in feeds : \A y \in feeds : x <= y
             IN  << SubSeq(buf, 1, i - 1) >> \o SplitLines(SubSeq(buf, i + 1, Len(buf)))

\* JSON.parse(line) returns: the line is one whole reply
Parses(line) ==
    /\ Len(line) = 2
    /\ line[1].part = 1 /\ line[2].part = 2
    /\ line[1].id = line[2].id /\ line[1].shape = line[2].shape
    /\ line[1].shape \in {"result", "error"}

\* the loop of onData over the lines inside its try: "pending" when the
\* loop ends or JSON.parse throws, else the shape of the reply taken.
\* queryGitHubTools takes response.id === requestId && response.result,
\* proxyToGitHub takes response.id === requestId.
RECURSIVE ScanLines(_, _, _, _)
ScanLines(kind, requestId, lines, i) ==
    IF i > Len(lines) THEN "pending"
    ELSE IF lines[i] = << >> THEN ScanLines(kind, requestId, lines, i + 1)
    ELSE IF ~Parses(lines[i]) THEN "pending"
    ELSE IF lines[i][1].id = requestId /\ (kind = "call" \/ lines[i][1].shape = "result")
    THEN lines[i][1].shape
    ELSE ScanLines(kind, requestId, lines, i + 1)

\* onData(data) of the call with this request id: responseBuffer += data,
\* then the loop; on a reply taken clearTimeout, removeListener, resolve
onData(c, requestId, data) ==
    LET buffer == c.responseBuffer \o data
        taken1 == ScanLines(c.kind, requestId, SplitLines(buffer), 1)
    IN  IF taken1 = "pending" THEN [c EXCEPT !.responseBuffer = buffer]
        ELSE [c EXCEPT !.responseBuffer = buffer, !.timer = FALSE, !.listening = FALSE,
                       !.promise = IF @ = "pending" THEN "resolved" ELSE @,
                       !.got = IF c.promise = "pending" THEN taken1 ELSE @]

\* the proxy's own state: the fields of ProxyMCPServer and its calls
ProxyState(ready, id, written, cs) ==
    [githubMcpReady |-> ready, jsonRpcId |-> id, mcpStdin |-> written, proxyCalls |-> cs]

\* new Promise(...) of queryGitHubTools and proxyToGitHub: ++jsonRpcId,
\* setTimeout, stdout.on('data', onData), stdin.write(request)
NewCall(P, kind, method) ==
    LET requestId == P.jsonRpcId + 1
    IN  [P EXCEPT !.jsonRpcId = requestId,
                  !.mcpStdin = Append(@, [id |-> requestId, method |-> method]),
                  !.proxyCalls = Append(@, [kind |-> kind, promise |-> "pending",
                                            timer |-> TRUE, listening |-> TRUE,
                                            responseBuffer |-> << >>, got |-> "nothing"])]

\* queryGitHubTools()
ProxyQueryGitHubTools(P) == NewCall(P, "list", "tools/list")

\* proxyToGitHub(toolName, args): the 'not ready' result at once, or a call
proxyToGitHub(P) ==
    IF ~P.githubMcpReady THEN P ELSE NewCall(P, "call", "tools/call")

\* the constructor: githubMcpReady = false, jsonRpcId = 0
ProxyMCPServer == ProxyState(FALSE, 0, << >>, << >>)

\* startGitHubMCP() up to its await: the child is spawned, the 'exit'
\* listener registered, and queryGitHubTools() has written tools/list
startGitHubMCP(P) == ProxyQueryGitHubTools(P)

\* ------------------------------------------------------------------- Init
\* a call of a PluginManager method: the method, its argument, whether it
\* returned (ok) or threw, and the tools it returned
Call(op, n, ok, tools) == [op |-> op, name |-> n, ok |-> ok, tools |-> tools]

\* no method was called yet
NoCall == Call("none", NoName, TRUE, << >>)

\* main() has run to its first await: startGitHubMcp() has spawned the
\* child, registered the init handler, written initialize and armed the
\* init timer.  Every record of plugins.json has its directory.
StartWith(stores, streams, descriptions) ==
    /\ phase = "starting"
    /\ exitCode = 0 - 1
    /\ now = 0
    /\ backendAlive = TRUE
    /\ killSent = FALSE
    /\ replied = {}
    /\ LET B == startGitHubMcp([toBackend |-> << >>, mcpHandlers |-> {},
                                nextHandlerId |-> 0, calls |-> << >>, timers |-> {}])
       IN  /\ toBackend = B.toBackend
           /\ mcpHandlers = B.mcpHandlers
           /\ nextHandlerId = B.nextHandlerId
           /\ calls = B.calls
           /\ timers = B.timers
    /\ invoked = << >>
    /\ githubTools = << >>
    /\ reqs = << >>
    /\ stdout = << >>
    /\ stdinEnded = FALSE
    /\ store \in stores
    /\ loadedPlugins = << >>
    /\ disk = { store[i].name : i \in 1..Len(store) }
    /\ called = NoCall
    /\ pipe \in streams
    /\ taken = 0
    /\ mcpBuffer = << >>
    /\ heard = << >>
    /\ description \in descriptions
    /\ passes = << >>
    /\ githubMcpReady = ProxyMCPServer.githubMcpReady
    /\ jsonRpcId = ProxyMCPServer.jsonRpcId
    /\ mcpStdin = ProxyMCPServer.mcpStdin
    /\ proxyCalls = ProxyMCPServer.proxyCalls
    /\ mcpWritten = << >>
    /\ mcpDelivered = 0
    /\ mcpExited = FALSE
    /\ serving = FALSE

\* the backend has written nothing yet and no description is at hand
InitWith(stores) == StartWith(stores, { << >> }, { << >> })

Init == InitWith(InitialStores)

\* ---------------------------------------------------------------- actions
\* the timers of B whose callback has something to do
Pending(B) == { h \in B.timers : ~B.calls[h].responseReceived }

\* the timers of B that expire by time t and whose call has its reply
Spent(B, t) == { h \in B.timers : B.calls[h].responseReceived /\ B.calls[h].deadline <= t }

\* their callbacks run in the order of the timers' creation (the set
\* construct makes TLC evaluate the state after a callback once)
RECURSIVE RunSpent(_, _)
RunSpent(B, t) ==
    IF Spent(B, t) = {} THEN B
    ELSE LET h == CHOOSE x \in Spent(B, t) : \A y \in Spent(B, t) : x <= y
         IN  CHOOSE after \in { RunSpent(B1, t) :
                 B1 \in { [TimeoutCallback(B, h) EXCEPT !.timers = @ \ {h}] } } : TRUE

\* the calls whose promise is not settled
Outstanding(B) == { h \in DOMAIN B.calls : B.calls[h].promise = "pending" }

\* the instants the model observes after `now`: the deadlines of the
\* pending timers, and the next millisecond when that changes what
\* Date.now() is compared with (the id of an outstanding call)
Instants ==
    { calls[h].deadline : h \in Pending(Backend) }
        \cup (IF \E h \in Outstanding(Backend) : calls[h].id = DateNow
              THEN {now + 1} ELSE {})

\* Time passes.  A timer is run by the first loop iteration that finds it
\* expired, before that iteration polls for input: the clock does not pass
\* the deadline of a pending timer (TimerFires runs it), and the timers it
\* reaches whose call already has its reply run on the way.
Tick ==
    /\ Running
    /\ \E t \in Instants :
          /\ t > now
          /\ \A h \in Pending(Backend) : t <= calls[h].deadline
          /\ now' = t
          /\ SetBackend(RunSpent(Backend, t))
    /\ UNCHANGED << phase, exitCode, backendAlive, killSent,
                    replied, githubTools, clientVars, pluginVars >>
    /\ UNCHANGED stdinEnded
    /\ UNCHANGED invoked
    /\ UNCHANGED asideVars

\* githubMcp.on('error', reject): the child could not be spawned; main()
\* rejects and main().catch exits with code 1
SpawnError ==
    /\ phase = "starting"
    /\ backendAlive
    /\ replied = {}
    /\ backendAlive' = FALSE
    /\ StartupFailure
    /\ UNCHANGED << now, killSent, backendVars, replied, githubTools, clientVars, pluginVars >>
    /\ UNCHANGED stdinEnded
    /\ UNCHANGED invoked
    /\ UNCHANGED asideVars

\* the child process exits by itself; nothing listens for it
BackendExit ==
    /\ Running
    /\ Idle
    /\ backendAlive
    /\ backendAlive' = FALSE
    /\ UNCHANGED << phase, exitCode, now, killSent, backendVars, replied,
                    githubTools, clientVars, pluginVars >>
    /\ UNCHANGED stdinEnded
    /\ UNCHANGED invoked
    /\ UNCHANGED asideVars

\* The backend answers request i of its input with a message of the given
\* shape, and the stdout 'data' handler dispatches it.  Then the awaits
\* the handlers resolved continue: main() after startGitHubMcp() goes on to
\* queryGitHubTools(); main() after queryGitHubTools() loads the plugins and
\* starts to read stdin; a handleRequest returns its reply.
Dispatch(logged, i, shape) ==
    /\ toBackend[i].id # 0
    /\ replied' = replied \cup {i}
    /\ LET m == [id |-> toBackend[i].id, shape |-> shape, for |-> i]
           B0 == Backend
           B1 == handleGitHubMcpOutput(B0, m)
           started == phase = "starting" /\ B1.calls[0].promise = "resolved"
           listed == phase = "discovering" /\ B1.calls[1].promise = "resolved"
       IN  /\ SetBackend(IF started THEN queryGitHubTools(B1) ELSE B1)
           /\ phase' = IF started THEN "discovering"
                       ELSE IF listed THEN "ready" ELSE phase
           /\ githubTools' = IF listed THEN BackendCatalog ELSE githubTools
           /\ loadedPlugins' = IF listed THEN loadPlugins(store, loadedPlugins)
                               ELSE loadedPlugins
           /\ ResumeRequests(B0, B1)
           /\ invoked' = IF logged THEN HandlerCalls(B0, m) ELSE invoked
    /\ UNCHANGED << exitCode, now, backendAlive, killSent, store, disk >>
    /\ UNCHANGED stdinEnded
    /\ UNCHANGED asideVars

Answer(i, shape) == Dispatch(FALSE, i, shape)

BackendReply ==
    /\ Running
    /\ Idle
    /\ backendAlive
    /\ \E i \in (1..Len(toBackend)) \ replied, shape \in Shapes : Answer(i, shape)

\* The backend writes a line that is JSON and no object: null.  Every
\* handler is called with it and throws; each throw is caught and logged.
BackendNoise ==
    /\ Running
    /\ Idle
    /\ backendAlive
    /\ invoked' = HandlerCalls(Backend, [id |-> 0, shape |-> "null", for |-> 0])
    /\ UNCHANGED << phase, exitCode, now, backendAlive, killSent, backendVars, replied,
                    githubTools, clientVars, stdinEnded, pluginVars, asideVars >>

\* The timer of call h fires.  A rejected startGitHubMcp() or
\* queryGitHubTools() rejects main(), and main().catch exits with code 1;
\* a rejected callGitHubTool() makes handleRequest return an error reply.
\* Timers are armed on the event loop's clock, not on Date.now(): two calls
\* made in the same millisecond of Date.now() by different 'data' events
\* need not expire in the same loop iteration, so input can be dispatched
\* between their callbacks.
Expire(h) ==
    /\ now >= calls[h].deadline
    /\ LET B0 == Backend
           B1 == [TimeoutCallback(B0, h) EXCEPT !.timers = @ \ {h}]
           fatal == /\ B0.calls[h].kind # "call"
                    /\ B0.calls[h].promise = "pending"
                    /\ B1.calls[h].promise = "rejected"
       IN  /\ SetBackend(B1)
           /\ ResumeRequests(B0, B1)
           /\ IF fatal THEN StartupFailure ELSE UNCHANGED << phase, exitCode >>
    /\ UNCHANGED << now, backendAlive, killSent, replied, githubTools, pluginVars >>
    /\ UNCHANGED stdinEnded
    /\ UNCHANGED invoked
    /\ UNCHANGED asideVars

TimerFires ==
    /\ Running
    /\ Idle
    /\ \E h \in Pending(Backend) : Expire(h)

\* stdin 'data': the chunk's lines are split off and queued behind the
\* handler's for loop
ChunkArrives(R) ==
    /\ phase = "ready"
    /\ Idle
    /\ ~stdinEnded
    /\ \E lines \in Chunks(R, MaxReqs - Len(reqs)) :
          LET c == 1 + Cardinality({ reqs[r].chunk : r \in 1..Len(reqs) })
          IN  reqs' = reqs \o [i \in 1..Len(lines) |->
                                     [kind |-> lines[i], chunk |-> c, st |-> "queued",
                                   route |-> "none", threw |-> FALSE]]
    /\ UNCHANGED << phase, exitCode, now, backendAlive, killSent, backendVars,
                    replied, githubTools, stdout, pluginVars >>
    /\ UNCHANGED stdinEnded
    /\ UNCHANGED invoked
    /\ UNCHANGED asideVars

\* The for loop takes line r: JSON.parse, await handleRequest(request),
\* process.stdout.write.  A request for the backend stops at the await of
\* callGitHubTool() with its request written.
Handle(r, env) ==
    /\ Runnable(r)
    /\ IF Route(reqs[r].kind, loadedPlugins) = "backend"
       THEN /\ SetBackend(callGitHubTool(Backend, r))
            /\ reqs' = [reqs EXCEPT ![r].st = "awaiting", ![r].route = "backend"]
            /\ UNCHANGED << stdout, pluginVars >>
       ELSE LET res == handleRequest(r, reqs[r].kind, store, loadedPlugins, disk,
                                     githubTools, env)
            IN  /\ stdout' = stdout \o res.out
                /\ reqs' = [reqs EXCEPT ![r].st = "done", ![r].route = res.route,
                                         ![r].threw = res.threw]
                /\ store' = res.store
                /\ loadedPlugins' = res.loaded
                /\ disk' = res.disk
                /\ UNCHANGED backendVars
    /\ UNCHANGED << phase, exitCode, now, backendAlive, killSent, replied, githubTools >>
    /\ UNCHANGED stdinEnded
    /\ UNCHANGED invoked
    /\ UNCHANGED asideVars

RunLine ==
    /\ phase = "ready"
    /\ \E r \in 1..Len(reqs), env \in Outcomes : Handle(r, env)

\* SIGINT or SIGTERM: if (githubMcp) githubMcp.kill(); process.exit(0)
Signal ==
    /\ Running
    /\ Idle
    /\ killSent' = TRUE
    /\ backendAlive' = FALSE
    /\ Exit(0)
    /\ UNCHANGED << now, backendVars, replied, githubTools, clientVars, pluginVars >>
    /\ UNCHANGED stdinEnded
    /\ UNCHANGED invoked
    /\ UNCHANGED asideVars

\* The client closes stdin while main() has not yet registered its stdin
\* listeners: the stream is not read, nothing happens.
ClientCloses ==
    /\ Running
    /\ phase # "ready"
    /\ ~stdinEnded
    /\ stdinEnded' = TRUE
    /\ UNCHANGED << phase, exitCode, now, backendAlive, killSent, backendVars, replied,
                    githubTools, clientVars, pluginVars, asideVars, invoked >>

\* stdin 'end': the same as a signal, once main() has registered the
\* listener; the stream is read from then on, so an end of input that
\* came before is found then
StdinEnd ==
    /\ phase = "ready"
    /\ Idle
    /\ killSent' = TRUE
    /\ backendAlive' = FALSE
    /\ Exit(0)
    /\ UNCHANGED << now, backendVars, replied, githubTools, clientVars, pluginVars >>
    /\ stdinEnded' = TRUE
    /\ UNCHANGED invoked
    /\ UNCHANGED asideVars

NextWith(R) ==
    \/ Tick
    \/ SpawnError
    \/ BackendExit
    \/ BackendReply
    \/ TimerFires
    \/ ChunkArrives(R)
    \/ RunLine
    \/ Signal
    \/ ClientCloses
    \/ StdinEnd

Next == NextWith(Requests)

\* ------------------------------------------------ the pipe, byte by byte
\* what the backend writes to its stdout in one run
Streams == UNION { [1..n -> Bytes] : n \in 0..MaxStream }

\* githubMcp.stdout 'data': the pipe delivers the next bytes, cut wherever
\* the operating system cuts them
DataEvent ==
    /\ \E n \in 1..(Len(pipe) - taken) :
          LET fed == FeedMcpBuffer(mcpBuffer, SubSeq(pipe, taken + 1, taken + n))
          IN  /\ taken' = taken + n
              /\ mcpBuffer' = fed.mcpBuffer
              /\ heard' = heard \o fed.messages
    /\ UNCHANGED << pipe, called, textVars, pluginVars, serverVars, proxyVars >>

InitFraming == StartWith(InitialStores, Streams, { << >> })

SpecFraming == InitFraming /\ [][DataEvent]_vars

\* ------------------------------------------------------ compression
\* compressDescription is applied to the description, then to its result
CompressPass ==
    /\ Len(passes) < MaxPasses
    /\ passes' = Append(passes, compressDescription(IF passes = << >> THEN description
                                                    ELSE passes[Len(passes)]))
    /\ UNCHANGED << description, called, framingVars, pluginVars, serverVars, proxyVars >>

InitCompress == StartWith(InitialStores, { << >> }, Descriptions)

SpecCompress == InitCompress /\ [][CompressPass]_vars

\* ------------------------------------------- the manager, called directly
\* A caller of the PluginManager class (module.exports) invokes one method.
CallEnable(n) ==
    /\ LET r == setPluginEnabled(store, n, TRUE)
       IN  /\ store' = r.store
           /\ called' = Call("enablePlugin", n, r.ok, << >>)
    /\ UNCHANGED << loadedPlugins, disk, serverVars, framingVars, textVars, proxyVars >>

CallDisable(n) ==
    /\ LET r == setPluginEnabled(store, n, FALSE)
       IN  /\ store' = r.store
           /\ called' = Call("disablePlugin", n, r.ok, << >>)
    /\ UNCHANGED << loadedPlugins, disk, serverVars, framingVars, textVars, proxyVars >>

CallUninstall(n) ==
    /\ \E env \in {"ok", "save"} :
          LET r == uninstallPlugin(store, disk, n, env)
          IN  /\ store' = r.store
              /\ disk' = r.disk
              /\ called' = Call("uninstallPlugin", n, r.ok, << >>)
    /\ UNCHANGED << loadedPlugins, serverVars, framingVars, textVars, proxyVars >>

CallLoadPlugins ==
    /\ loadedPlugins' = loadPlugins(store, loadedPlugins)
    /\ called' = Call("loadPlugins", NoName, TRUE, << >>)
    /\ UNCHANGED << store, disk, serverVars, framingVars, textVars, proxyVars >>

CallGetPluginTools ==
    /\ called' = Call("getPluginTools", NoName, TRUE, getPluginTools(loadedPlugins))
    /\ UNCHANGED << pluginVars, serverVars, framingVars, textVars, proxyVars >>

NextManager ==
    \/ \E n \in ManagerNames : CallEnable(n)
    \/ \E n \in ManagerNames : CallDisable(n)
    \/ \E n \in { AcmeTools, <<"ghost">> } : CallUninstall(n)
    \/ CallLoadPlugins
    \/ CallGetPluginTools

InitManager == InitWith(ManagerStores)

\* the plugin manager under a caller that invokes its methods in any
\* order (the server's own variables stay as they start)
SpecManager == InitManager /\ [][NextManager]_vars

Spec == Init /\ [][Next]_vars

\* the same server, asked for tools by name
NextRouting == NextWith(RoutingRequests)

SpecRouting == Init /\ [][NextRouting]_vars


\* the server started with four plugins installed, asked for their tools
InitTools == InitWith(ToolStores)

NextTools == NextWith(ToolRequests)

SpecTools == InitTools /\ [][NextTools]_vars

\* the server asked to install and uninstall plugins
NextInstall == NextWith(InstallRequests)

SpecInstall == Init /\ [][NextInstall]_vars

\* the server asked to install, enable, disable and uninstall plugins and
\* to list the tools
InitLifecycle == InitWith(LifecycleStores)

NextLifecycle == NextWith(LifecycleRequests)

SpecLifecycle == InitLifecycle /\ [][NextLifecycle]_vars

\* the server given management calls while a backend call is outstanding
NextConcurrent == NextWith(ConcurrentRequests)

SpecConcurrent == InitLifecycle /\ [][NextConcurrent]_vars

\* the requests that matter to how long a reply takes: a tool call for the
\* backend and a request answered without it
CallRequests ==
    { ToolCall(<<"get", "_", "me">>, Undefined),
      Request("tools/list", FALSE, Undefined, Undefined) }

NextCalls == NextWith(CallRequests)

\* The same server with the dispatch of every backend message written
\* down in invoked, and a backend that also writes the line null.
BackendReplyLogged ==
    /\ Running
    /\ Idle
    /\ backendAlive
    /\ \E i \in (1..Len(toBackend)) \ replied, shape \in Shapes : Dispatch(TRUE, i, shape)

NextDispatch ==
    \/ Tick
    \/ SpawnError
    \/ BackendExit
    \/ BackendReplyLogged
    \/ BackendNoise
    \/ TimerFires
    \/ ChunkArrives(CallRequests)
    \/ RunLine
    \/ Signal
    \/ ClientCloses
    \/ StdinEnd

SpecDispatch == Init /\ [][NextDispatch]_vars

\* The event loop runs what is ready: time passes, an expired timer is
\* run, a ready continuation is run.  Nothing obliges the backend or the
\* client to act.
FairSpec ==
    Init /\ [][NextCalls]_vars
         /\ WF_vars(Tick) /\ WF_vars(TimerFires) /\ WF_vars(RunLine)

\* ------------------------------------------- proxy-server.js, running
\* plugin-server.js is another program: nothing of it moves here
pluginServerVars == << serverVars, pluginVars, called, framingVars, textVars >>

Proxy == ProxyState(githubMcpReady, jsonRpcId, mcpStdin, proxyCalls)

SetProxy(P) ==
    /\ githubMcpReady' = P.githubMcpReady
    /\ jsonRpcId' = P.jsonRpcId
    /\ mcpStdin' = P.mcpStdin
    /\ proxyCalls' = P.proxyCalls

\* the continuation of startGitHubMCP() once its queryGitHubTools()
\* settled: githubMcpReady = true, or the catch block; then run() connects
\* the transport
Started(P) ==
    IF serving \/ P.proxyCalls[1].promise = "pending" THEN P
    ELSE [P EXCEPT !.githubMcpReady = (P.proxyCalls[1].promise = "resolved")]

\* run(): await this.startGitHubMCP()
ProxyRun ==
    /\ jsonRpcId = 0
    /\ SetProxy(startGitHubMCP(Proxy))
    /\ UNCHANGED << mcpWritten, mcpDelivered, mcpExited, serving >>
    /\ UNCHANGED pluginServerVars

\* the child process has been spawned
Spawned == jsonRpcId > 0

\* what the backend wrote and no 'data' event has delivered yet
mcpOut == SubSeq(mcpWritten, mcpDelivered + 1, Len(mcpWritten))

\* the replies the backend can write: one to each request it has read
\* and not answered, as a result or as an error
Replies ==
    { ReplyLine(mcpStdin[i].id, shape) :
        i \in { x \in 1..Len(mcpStdin) :
                  \A k \in 1..Len(mcpWritten) : mcpWritten[k].id # mcpStdin[x].id },
        shape \in {"result", "error"} }

\* The backend writes a line to its stdout: a reply, or a line that is no
\* JSON.
McpWrites ==
    /\ Spawned
    /\ ~mcpExited
    /\ \E line \in Replies \cup { NoiseLine } :
          /\ line = NoiseLine =>
                Cardinality({ k \in 1..Len(mcpWritten) : mcpWritten[k] = Noise }) < MaxNoise
          /\ mcpWritten' = mcpWritten \o line
    /\ UNCHANGED << githubMcpReady, jsonRpcId, mcpStdin, proxyCalls, mcpDelivered,
                    mcpExited, serving >>
    /\ UNCHANGED pluginServerVars

\* githubMcp.stdout 'data' with the next n tokens: every onData registered
\* when the event is emitted runs on them
McpData ==
    /\ \E n \in 1..Len(mcpOut) :
          LET data == SubSeq(mcpOut, 1, n)
              P == [Proxy EXCEPT !.proxyCalls =
                        [id \in 1..Len(proxyCalls) |->
                            IF proxyCalls[id].listening
                            THEN onData(proxyCalls[id], id, data)
                            ELSE proxyCalls[id]]]
          IN  /\ mcpDelivered' = mcpDelivered + n
              /\ SetProxy(Started(P))
              /\ serving' = (serving \/ P.proxyCalls[1].promise # "pending")
    /\ UNCHANGED << mcpWritten, mcpExited >>
    /\ UNCHANGED pluginServerVars

\* the timer of a call fires: reject(new Error('Timeout ...')), nothing else
ProxyTimeout ==
    /\ \E id \in 1..Len(proxyCalls) :
          /\ proxyCalls[id].timer
          /\ LET P == [Proxy EXCEPT !.proxyCalls[id].timer = FALSE,
                                    !.proxyCalls[id].promise =
                                        IF @ = "pending" THEN "rejected" ELSE @]
             IN  /\ SetProxy(Started(P))
                 /\ serving' = (serving \/ P.proxyCalls[1].promise # "pending")
    /\ UNCHANGED << mcpWritten, mcpDelivered, mcpExited >>
    /\ UNCHANGED pluginServerVars

\* githubMcp 'exit': githubMcpReady = false.  The pipe may still hold what
\* the backend wrote before it ended.
McpExit ==
    /\ Spawned
    /\ ~mcpExited
    /\ mcpExited' = TRUE
    /\ githubMcpReady' = FALSE
    /\ UNCHANGED << jsonRpcId, mcpStdin, proxyCalls, mcpWritten, mcpDelivered, serving >>
    /\ UNCHANGED pluginServerVars

\* a client's tools/call for a backend tool: proxyToGitHub
ClientCall ==
    /\ serving
    /\ jsonRpcId < MaxProxyCalls
    /\ SetProxy(proxyToGitHub(Proxy))
    /\ UNCHANGED << mcpWritten, mcpDelivered, mcpExited, serving >>
    /\ UNCHANGED pluginServerVars

NextProxy ==
    \/ ProxyRun
    \/ McpWrites
    \/ McpData
    \/ ProxyTimeout
    \/ McpExit
    \/ ClientCall

SpecProxy == Init /\ [][NextProxy]_vars

\* ----------------------------------------------------------------- claims
ToolCallIds == { h \in DOMAIN calls : calls[h].kind = "call" }
RepliesTo(r) == { i \in 1..Len(stdout) : stdout[i].id = r }
Sent(method) == { i \in 1..Len(toBackend) : toBackend[i].method = method }

C2_DistinctIds ==
    /\ \A h, g \in ToolCallIds \cap Outstanding(Backend) :
           h # g => calls[h].id # calls[g].id
    /\ \A h, g \in ToolCallIds :
           (h # g /\ calls[h].by # 0) => calls[h].by # calls[g].by
    /\ \A h \in ToolCallIds : calls[h].by # 0 => calls[h].by = calls[h].msg

\* C3: the registry holds handlers of unsettled calls only, and the reply
\* to a request whose call timed out is taken by no handler and relayed in
\* no client reply.
C3_LateReplyDropped ==
    /\ \A h \in mcpHandlers : calls[h].promise = "pending"
    /\ \A g \in DOMAIN calls :
           calls[g].events = <<"timeout">> =>
               /\ \A h \in DOMAIN calls : calls[h].by # calls[g].msg
               /\ \A i \in 1..Len(stdout) : stdout[i].src # calls[g].msg

\* C4: on the backend pipe, initialize is first; notifications/initialized
\* is written only after the init handler took a reply with id 1 and
\* capabilities; tools/list only after that notification; a tools/call only
\* after the list handler took the tools/list reply; and no client request
\* is read before that.
C4_HandshakeOrder ==
    /\ toBackend[1].method = "initialize"
    /\ \A i \in Sent("initialize") : i = 1
    /\ \A i \in Sent("notifications/initialized") :
           i = 2 /\ calls[0].got = "caps" /\ calls[0].by = 1
    /\ \A i \in Sent("tools/list") :
           i = 3 /\ toBackend[2].method = "notifications/initialized"
    /\ \A i \in Sent("tools/call") :
           i > 3 /\ calls[1].got = "tools" /\ calls[1].by = 3
    /\ Len(reqs) > 0 => calls[0].got = "caps" /\ calls[1].got = "tools"

\* a tools/call was written to the backend
C4_Witness == Sent("tools/call") # {}

\* C5: no tools/call is written to a backend process that has exited.
C5_FailFast == \A i \in Sent("tools/call") : toBackend[i].alive

InitReplyTaken == calls[0].got = "caps"

\* C6 as stated: a process that ends without the init handler having taken
\* a successful initialize reply ends with a non-zero exit code.
C6_NonZeroExit == (phase = "exited" /\ ~InitReplyTaken) => exitCode > 0

\* C6, amended: while no successful initialize reply was taken, the server
\* stays in startup no longer than the init timeout, writes no
\* notifications/initialized and reads no client request; when the init
\* timer finds no reply, or the spawn fails, the process exits with code 1;
\* the only other way it ends is a termination signal (exit code 0).
C6_StartupFailure ==
    /\ (Running /\ ~InitReplyTaken) =>
           phase = "starting" /\ now <= INIT_TIMEOUT /\ calls[0].events = << >>
    /\ ~InitReplyTaken =>
           Sent("notifications/initialized") = {} /\ reqs = << >> /\ stdout = << >>
    /\ calls[0].events = <<"timeout">> => phase = "exited" /\ exitCode = 1
    /\ (phase = "exited" /\ ~InitReplyTaken) =>
           IF killSent THEN exitCode = 0 ELSE exitCode = 1

\* the backend answered initialize with something else than capabilities,
\* the init timer fired and the process exited with code 1
C6_Witness ==
    /\ 1 \in replied
    /\ calls[0].events = <<"timeout">>
    /\ phase = "exited" /\ exitCode = 1

\* the reply handleRequest gives for a settled tool call says how the call
\* was settled
SaysOutcome(rep, c) ==
    CASE c.events = <<"timeout">> ->
            rep.code = INTERNAL_ERROR /\ rep.msg = "Tool execution timeout"
      [] c.got = "error" -> rep.code = INTERNAL_ERROR /\ rep.msg = "backend error"
      [] OTHER -> rep.code = 0 /\ rep.msg = "result"

C7_OneReply ==
    \A h \in ToolCallIds :
        LET r == calls[h].req
        IN  /\ Cardinality(RepliesTo(r)) <= 1
            /\ calls[h].promise = "pending" <=> RepliesTo(r) = {}
            /\ \A i \in RepliesTo(r) : SaysOutcome(stdout[i], calls[h])

\* C7: while the process runs, every tools/call forwarded to the backend
\* gets exactly one reply with its id (the backend's result, the backend's
\* error, or the timeout error), even if the backend never answers, and
\* every request read from stdin is eventually handled: a timeout does not
\* stop the dispatcher.
C7_EventuallyAnswered ==
    /\ []C7_OneReply
    /\ \A r \in 1..MaxReqs :
          (r <= Len(reqs) /\ reqs[r].st # "done")
              ~> (phase = "exited" \/ (r <= Len(reqs) /\ reqs[r].st = "done"))

\* a tool call was answered with the timeout error and a later request was
\* answered after it
C7_Witness ==
    \E i, j \in 1..Len(stdout) :
        /\ i < j
        /\ stdout[i].msg = "Tool execution timeout"
        /\ stdout[j].id > stdout[i].id

KnownNames ==
    SeqToSet(ToolNames(githubTools)) \cup SeqToSet(getPluginManagementTools)
        \cup SeqToSet(ToolNames(getPluginTools(loadedPlugins)))

\* C9: a tools/call for a name that no source offers is answered with
\* error -32603 (never with a result).
C9_UnknownToolRejected ==
    \A i \in 1..Len(stdout) :
        LET k == reqs[stdout[i].id].kind
        IN  (k.method = "tools/call" /\ k.params /\ k.name \notin KnownNames)
                => stdout[i].code = INTERNAL_ERROR

\* C10: a request that was read is handled without waiting for an earlier
\* request's outstanding backend call: when no continuation is ready to
\* run, no request is still queued.
C10_NoHeadOfLineBlocking ==
    Idle => \A r \in 1..Len(reqs) : reqs[r].st # "queued"


\* the tools/call requests that were taken by a branch
TakenCalls ==
    { r \in 1..Len(reqs) :
        /\ reqs[r].st # "queued"
        /\ reqs[r].kind.method = "tools/call"
        /\ reqs[r].kind.params }

\* C11: a tools/call is handled by the management branch exactly when its
\* name is one of the six management operations, otherwise by the plugin
\* branch exactly when its name is a loaded plugin tool's, otherwise by
\* the backend branch.
C11_RoutingByName ==
    \A r \in TakenCalls :
        LET n == reqs[r].kind.name
            management == n \in SeqToSet(getPluginManagementTools)
            plugin == n \in SeqToSet(ToolNames(getPluginTools(loadedPlugins)))
        IN  reqs[r].route =
                IF management THEN "management"
                ELSE IF plugin THEN "plugin" ELSE "backend"


PluginToolList == getPluginTools(loadedPlugins)

\* C12: every qualified name that getPluginTools returns is executed by
\* executePluginTool in the plugin it is tagged with (pluginName).
C12_EveryToolInvocable ==
    \A i \in 1..Len(PluginToolList) :
        executePluginTool(loadedPlugins, PluginToolList[i].name, "ok").by
            = PluginToolList[i].pluginName

\* the tools/list results written so far
ToolLists == { i \in 1..Len(stdout) : stdout[i].msg = "tools" }

C14_DistinctNames ==
    \A i \in ToolLists :
        \A j, k \in 1..Len(stdout[i].tools) :
            j # k => stdout[i].tools[j] # stdout[i].tools[k]

\* C15: a tools/call whose name several sources offer is handled by the
\* last of them in the order backend, management, plugin.
C15_LaterSourceWins ==
    \A r \in TakenCalls :
        LET n == reqs[r].kind.name
        IN  reqs[r].route =
                IF n \in SeqToSet(ToolNames(PluginToolList)) THEN "plugin"
                ELSE IF n \in SeqToSet(getPluginManagementTools) THEN "management"
                ELSE "backend"


\* this step handles request r to its reply
Handled(r) == reqs[r].st = "queued" /\ reqs'[r].st = "done" /\ Len(stdout') = Len(stdout) + 1

\* the reply this step writes
Written1 == stdout'[Len(stdout')]

\* request r calls the management tool with an argument that is present
Calls(r, tool) ==
    /\ reqs[r].kind.method = "tools/call"
    /\ reqs[r].kind.params
    /\ reqs[r].kind.name = tool

\* the install specs of InstallRequests that have the form @owner/repo or
\* @owner/repo/subpath, with the name derived from each
WellFormed == { SpecAcme, SpecAcmeSub, SpecNoSub, SpecBare, SpecBroken }

DerivedName(spec) ==
    CASE spec = SpecAcme -> <<"acme", "-", "tools">>
      [] spec = SpecAcmeSub -> <<"acme", "-", "tools", "-", "sub">>
      [] spec = SpecNoSub -> <<"acme", "-", "tools", "-", "nope">>
      [] spec = SpecBare -> <<"acme", "-", "bare">>
      [] spec = SpecBroken -> <<"acme", "-", "broken">>

\* the errors of an install after its fetch started
FetchFailures ==
    { "clone failed", "Subpath not found", "Plugin manifest (plugin.json) not found",
      "SyntaxError", "npm install failed", "write failed" }

\* C16: when installPlugin fails after the fetch started, then as the
\* error is replied neither the temporary directory nor the plugin's
\* directory exists, the store has no record of the name, and every other
\* record and directory is as before.
C16_FailedInstallLeavesNothing ==
    [][ \A r \in 1..Len(reqs) :
          (/\ Handled(r)
           /\ Calls(r, PluginInstallName)
           /\ reqs[r].kind.arg \in WellFormed
           /\ Written1.msg \in FetchFailures)
          => LET name == DerivedName(reqs[r].kind.arg)
             IN  /\ Written1.code = INTERNAL_ERROR
                 /\ TempDir \notin disk'
                 /\ name \notin disk'
                 /\ \A i \in 1..Len(store') : store'[i].name # name
                 /\ store' = store
                 /\ disk' = disk \ {name}
                 /\ loadedPlugins' = loadedPlugins ]_vars

\* installs failed at npm install, at the manifest and at the subpath
C16_Witness ==
    \E i, j \in 1..Len(stdout) :
        /\ stdout[i].msg = "npm install failed"
        /\ stdout[j].msg \in { "Subpath not found", "SyntaxError",
                               "Plugin manifest (plugin.json) not found" }
        /\ TempDir \notin disk

\* C17: installing a spec whose derived name has a record is rejected with
\* the conflict error, and the store (the record included), the disk and
\* the loaded plugins are as before: nothing was fetched.
C17_ConflictRejected ==
    [][ \A r \in 1..Len(reqs) :
          (/\ Handled(r)
           /\ Calls(r, PluginInstallName)
           /\ reqs[r].kind.arg \in WellFormed
           /\ \E i \in 1..Len(store) : store[i].name = DerivedName(reqs[r].kind.arg))
          => /\ Written1.code = INTERNAL_ERROR
             /\ Written1.msg = "already installed"
             /\ store' = store
             /\ disk' = disk
             /\ loadedPlugins' = loadedPlugins ]_vars

\* an install was rejected as a conflict
C17_Witness ==
    \E i \in 1..Len(stdout) :
        /\ stdout[i].msg = "already installed"
        /\ Calls(stdout[i].id, PluginInstallName)

\* C18: an install whose spec is malformed or missing is rejected with an
\* error and changes neither the store, nor the disk, nor the loaded
\* plugins.
C18_MalformedSpecRejected ==
    [][ \A r \in 1..Len(reqs) :
          (/\ Handled(r)
           /\ Calls(r, PluginInstallName)
           /\ reqs[r].kind.arg \notin WellFormed)
          => /\ Written1.code = INTERNAL_ERROR
             /\ Written1.msg \in { "Invalid plugin spec", "TypeError" }
             /\ store' = store
             /\ disk' = disk
             /\ loadedPlugins' = loadedPlugins ]_vars

\* a malformed spec and a missing spec were rejected
C18_Witness ==
    \E i, j \in 1..Len(stdout) :
        /\ stdout[i].msg = "Invalid plugin spec"
        /\ reqs[stdout[i].id].kind.arg = SpecTrailingSlash
        /\ stdout[j].msg = "TypeError"
        /\ Calls(stdout[j].id, PluginInstallName)

\* C19: a successful install appends one record keyed by the derived name,
\* enabled, with the spec as given and the manifest's version ("1.0.0"
\* when the manifest has none); the plugin's directory exists, no
\* temporary directory remains, and the other records and directories are
\* as before.
C19_InstallRecord ==
    [][ \A r \in 1..Len(reqs) :
          (/\ Handled(r)
           /\ Calls(r, PluginInstallName)
           /\ Written1.code = 0)
          => LET spec == reqs[r].kind.arg
                 name == DerivedName(spec)
                 rec == store'[Len(store')]
             IN  /\ spec \in WellFormed
                 /\ Len(store') = Len(store) + 1
                 /\ SubSeq(store', 1, Len(store)) = store
                 /\ \A i \in 1..Len(store) : store[i].name # name
                 /\ rec.name = name /\ rec.enabled /\ rec.spec = spec
                 /\ rec.version = (IF spec = SpecAcmeSub THEN "2.0.0" ELSE "1.0.0")
                 /\ disk' = disk \cup {name}
                 /\ TempDir \notin disk' ]_vars

\* @acme/tools, whose manifest has no version, was installed (after its
\* first installation was uninstalled)
C19_Witness ==
    /\ \E i \in 1..Len(stdout) :
           stdout[i].code = 0 /\ reqs[stdout[i].id].kind.arg = SpecAcme
    /\ Len(store) = 1 /\ store[1].version = "1.0.0"
    /\ disk = { AcmeTools }

\* C20: uninstallPlugin of a name without a record fails as not found and
\* changes neither the disk nor the store; of a name with a record it
\* deletes the directory and the record and nothing else.
C20_Uninstall ==
    [][ \A r \in 1..Len(reqs) :
          (/\ Handled(r)
           /\ Calls(r, PluginUninstallName)
           /\ reqs[r].kind.arg # Undefined)
          => LET name == reqs[r].kind.arg
             IN  IF \E i \in 1..Len(store) : store[i].name = name
                 THEN /\ Written1.code = 0
                      /\ store' = SelectSeq(store, LAMBDA x : x.name # name)
                      /\ disk' = disk \ {name}
                 ELSE /\ Written1.code = INTERNAL_ERROR
                      /\ Written1.msg = "not found"
                      /\ store' = store
                      /\ disk' = disk ]_vars


\* the names of the loaded plugins
LoadedNames == { loadedPlugins[i].name : i \in 1..Len(loadedPlugins) }

\* the plugins of ManagerStores whose index.js loads
Working == { <<"acme", "-", "tools">>, <<"acme", "-", "tools", "-", "sub">>,
             <<"acme", "-", "flaky">> }

\* C21: enablePlugin(name) and disablePlugin(name) of a name with a record
\* return success and set the enabled flag of that record, leaving its
\* other fields, the other records, the disk and the loaded plugins as
\* they were; of a name without a record they throw and change nothing.
C21_ToggleFrame ==
    [][ called'.op \in {"enablePlugin", "disablePlugin"} =>
          LET n == called'.name
              en == called'.op = "enablePlugin"
          IN  /\ disk' = disk
              /\ loadedPlugins' = loadedPlugins
              /\ IF \E i \in 1..Len(store) : store[i].name = n
                 THEN /\ called'.ok
                      /\ Len(store') = Len(store)
                      /\ \A i \in 1..Len(store) :
                            store'[i] = IF store[i].name = n
                                        THEN [store[i] EXCEPT !.enabled = en]
                                        ELSE store[i]
                 ELSE /\ ~called'.ok
                      /\ store' = store ]_vars

\* C22: when loadPlugins() returns, the loaded plugins are exactly the
\* plugins with an enabled record whose entry point loads.
C22_LoadedIsEnabled ==
    [][ called'.op = "loadPlugins" =>
          LoadedNames' = { store[i].name : i \in { k \in 1..Len(store) :
                               store[k].enabled /\ store[k].name \in Working } } ]_vars

\* C23: loadPlugins() returns, having loaded every enabled plugin whose
\* entry point loads, wherever in the store the plugins stand whose entry
\* point is missing or throws; those are not loaded.
C23_BrokenPluginSkipped ==
    [][ called'.op = "loadPlugins" =>
          /\ called'.ok
          /\ \A i \in 1..Len(store) :
                (store[i].enabled /\ store[i].name \in Working)
                    => store[i].name \in LoadedNames'
          /\ <<"acme", "-", "crash">> \notin LoadedNames'
          /\ <<"acme", "-", "noindex">> \notin LoadedNames' ]_vars

\* loadPlugins() met the plugin that throws first and loaded the two
\* enabled plugins after it
C23_Witness ==
    /\ called.op = "loadPlugins"
    /\ store[1].name = AcmeCrash /\ store[1].enabled
    /\ LoadedNames = { AcmeTools, AcmeFlaky }

\* the tools of plugin p in a list of qualified tools
ToolsOf(tools, p) == SelectSeq(tools, LAMBDA t : t.pluginName = p)

\* C24: after disablePlugin(P) of a loaded plugin and loadPlugins(), no
\* tool of getPluginTools() is P's; after enablePlugin(P) and
\* loadPlugins(), P's tools are listed as before the disable.
C24_DisableEnableRoundTrip ==
    [][ (called.ok /\ called'.op = "loadPlugins"
            /\ called.name \in { <<"acme", "-", "tools">>,
                                 <<"acme", "-", "tools", "-", "sub">> }) =>
          LET after == getPluginTools(loadedPlugins')
              P == called.name
          IN  /\ (called.op = "disablePlugin" /\ P \in LoadedNames)
                     => ToolsOf(after, P) = << >>
              /\ called.op = "enablePlugin"
                     => ToolsOf(after, P) =
                            << [name |-> P \o <<"_", "hello">>, pluginName |-> P] >>
      ]_vars

\* C26: getPluginTools() returns; the plugin whose getTools() throws has
\* no tool in the result, and every other loaded plugin has its tool in
\* it, once.
C26_ThrowingGetToolsSkipped ==
    called.op = "getPluginTools" =>
        /\ called.ok
        /\ ToolsOf(called.tools, <<"acme", "-", "flaky">>) = << >>
        /\ \A p \in LoadedNames \ { <<"acme", "-", "flaky">> } :
               ToolsOf(called.tools, p) =
                   << [name |-> p \o <<"_", "hello">>, pluginName |-> p] >>

\* getPluginTools() returned the tools of a plugin that comes after the
\* throwing one in the Map
C26_Witness ==
    /\ called.op = "getPluginTools"
    /\ \E i, j \in 1..Len(loadedPlugins) :
           /\ i < j
           /\ loadedPlugins[i].name = AcmeFlaky
           /\ loadedPlugins[j].name = AcmeToolsSub
    /\ ToolsOf(called.tools, AcmeToolsSub) # << >>


\* the plugin tools of the tools/list result written as reply j
PluginPart(j) ==
    SeqToSet(SubSeq(stdout[j].tools, Len(BackendCatalog) + 7, Len(stdout[j].tools)))

\* the request answered by reply j
Asked(j) == reqs[stdout[j].id].kind

\* C25: the tools/list answered right after a successful plugin_install or
\* plugin_enable lists the plugin's tools, the one answered right after a
\* successful plugin_disable or plugin_uninstall does not; a management
\* call that fails leaves the loaded plugins, and so what tools/list
\* returns, as they were.
C25_NextListReflects ==
    /\ [](\A j \in ToolLists :
            (j > 1 /\ Asked(j - 1).method = "tools/call" /\ stdout[j - 1].code = 0) =>
                LET k == Asked(j - 1)
                IN  /\ (k.name = PluginInstallName /\ k.arg = SpecGet)
                           => <<"get", "_", "me">> \in PluginPart(j)
                    /\ (k.name = PluginEnableName)
                           => (k.arg \o <<"_", "hello">>) \in PluginPart(j)
                    /\ (k.name \in { PluginDisableName, PluginUninstallName })
                           => (k.arg \o <<"_", "hello">>) \notin PluginPart(j))
    /\ [][ \A r \in 1..Len(reqs) :
              (Handled(r) /\ reqs'[r].route = "management" /\ Written1.code # 0)
                  => loadedPlugins' = loadedPlugins ]_vars

\* a plugin was disabled and the tools/list after it was answered without
\* its tool, with one plugin tool less than the server started with
C25_Witness ==
    \E j \in ToolLists :
        /\ j > 1
        /\ Asked(j - 1).name = PluginDisableName
        /\ stdout[j - 1].code = 0
        /\ PluginPart(j) = {}


\* the records of a stream: its lines that end in a line feed, are not
\* blank and parse, decoded as one text
Records(stream) ==
    LET lines == Split(BufferToString(stream))
    IN  ParsedLines(SubSeq(lines, 1, Len(lines) - 1), 1)

\* C27: however the backend's output is cut into chunks, the messages
\* dispatched so far are the records of the bytes delivered so far, in
\* order.
C27_ChunkingInvariance == heard = Records(SubSeq(pipe, 1, taken))


\* C28: a process that got a termination signal or whose stdin ended has
\* killed the backend and exited with code 0, whatever state it was in;
\* every other end of the process is a startup failure, with a non-zero
\* code.
C28_CleanShutdown ==
    phase = "exited" =>
        IF killSent \/ stdinEnded
        THEN killSent /\ exitCode = 0
        ELSE exitCode > 0 /\ reqs = << >>


\* C29: compressing a compressed description gives it back unchanged.
C29_Idempotent == Len(passes) >= 2 => passes[2] = passes[1]


\* C30: when a backend message is dispatched, every handler registered at
\* that moment is called with it, once; a handler is gone from the
\* registry afterwards exactly if it returned true: one that returned
\* false or threw stays, and the handlers after one that threw are called
\* all the same.
C30_EveryHandlerInvoked ==
    [][ (invoked' # invoked \/ replied' # replied) =>
          /\ { invoked'[k].handler : k \in 1..Len(invoked') } = mcpHandlers
          /\ Len(invoked') = Cardinality(mcpHandlers)
          /\ \A k \in 1..Len(invoked') :
                invoked'[k].returned = "true" <=> invoked'[k].handler \notin mcpHandlers'
      ]_vars

\* with the handlers of two tool calls registered, a message made the
\* first throw; the second was called and threw, and both stayed
C30_Witness ==
    /\ Len(invoked) = 2
    /\ invoked[1].returned = "threw" /\ invoked[2].returned = "threw"
    /\ { invoked[1].handler, invoked[2].handler } = mcpHandlers
    /\ \A h \in mcpHandlers : calls[h].kind = "call"


\* what a successful management call does to plugins.json when it runs alone
Applied(st, k) ==
    CASE k.name = PluginInstallName ->
            Append(st, StoreRecord(PluginNameOf(k.arg), TRUE, Repository(k.arg).namespace,
                                   k.arg, RecordedVersion(Repository(k.arg).version)))
      [] k.name = PluginUninstallName -> WithoutRecord(st, k.arg)
      [] k.name = PluginEnableName -> SetEnabled(st, k.arg, TRUE)
      [] k.name = PluginDisableName -> SetEnabled(st, k.arg, FALSE)
      [] OTHER -> st

\* the successful management calls, applied one after the other in the
\* order of their replies, from reply j on
RECURSIVE Replayed(_, _)
Replayed(st, j) ==
    IF j > Len(stdout) THEN st
    ELSE IF reqs[stdout[j].id].route = "management" /\ stdout[j].code = 0
    THEN Replayed(Applied(st, Asked(j)), j + 1)
    ELSE Replayed(st, j + 1)

\* C31: whatever requests are pipelined and however their handling is
\* interleaved with a call that waits for the backend, plugins.json is
\* what the successful management calls make of the initial document when
\* applied one at a time in the order of their replies: no update is lost.
C31_StoreSerializable ==
    \A st0 \in LifecycleStores : store = Replayed(st0, 1)

\* a management call that came in after a backend call changed the store
\* while the backend call was still waiting for its reply
C31_Witness ==
    \E r \in 1..Len(reqs), j \in 1..Len(stdout) :
        /\ reqs[r].st = "awaiting"
        /\ stdout[j].id > r
        /\ reqs[stdout[j].id].route = "management"
        /\ stdout[j].code = 0
        /\ store \notin LifecycleStores


\* C36: whatever management calls were handled, with whatever outcome, the
\* directories in the plugin directory are those of the records of
\* plugins.json, one each, and there is no temporary directory.
C36_DiskMatchesStore ==
    disk = { store[i].name : i \in 1..Len(store) }


\* the names whose record in plugins.json has enabled: true
EnabledNames == { store[k].name : k \in { x \in 1..Len(store) : store[x].enabled } }

\* C37: whatever management calls the server has handled, with whatever
\* outcome, every loaded plugin has a record that is enabled; every plugin
\* tool that tools/list would list belongs to such a plugin, and a call
\* of it runs no plugin that is disabled or uninstalled.
C37_LoadedAreEnabled ==
    /\ LoadedNames \subseteq EnabledNames
    /\ \A i \in 1..Len(PluginToolList) :
          LET ran == executePluginTool(loadedPlugins, PluginToolList[i].name, "ok").by
          IN  /\ PluginToolList[i].pluginName \in EnabledNames
              /\ ran # NoName => ran \in EnabledNames

\* the plugin the server started with was disabled and the other one
\* enabled: only the second is loaded, and its tool is listed
C37_Witness ==
    /\ LoadedNames = { AcmeToolsSub }
    /\ AcmeTools \notin EnabledNames
    /\ \E j \in 1..Len(stdout) :
          stdout[j].code = 0 /\ Asked(j).name = PluginDisableName
    /\ Len(PluginToolList) = 1


\* C38: two well-formed install specs that differ derive different plugin
\* names, so that an install is refused as already installed only if the
\* store has a record of that very spec.
C38_NameInjective ==
    /\ [](\A r, q \in 1..Len(reqs) :
            (/\ Calls(r, PluginInstallName) /\ Calls(q, PluginInstallName)
             /\ ValidSpec(reqs[r].kind.arg) /\ ValidSpec(reqs[q].kind.arg)
             /\ PluginNameOf(reqs[r].kind.arg) = PluginNameOf(reqs[q].kind.arg))
            => reqs[r].kind.arg = reqs[q].kind.arg)
    /\ [][ \A r \in 1..Len(reqs) :
              (/\ Handled(r)
               /\ Calls(r, PluginInstallName)
               /\ Written1.msg = "already installed")
              => \E i \in 1..Len(store) : store[i].spec = reqs[r].kind.arg ]_vars


\* C39: when the server has exited on the end of its input, every request
\* it had read, a tools/call waiting for the backend included, has its
\* reply on stdout.
C39_AnsweredBeforeExit ==
    (phase = "exited" /\ stdinEnded) =>
        \A r \in 1..Len(reqs) : \E j \in 1..Len(stdout) : stdout[j].id = r

\* C40: however the server exits (end of input, a signal, a failed
\* startup), it has called kill() on the backend it spawned.
C40_KilledBeforeExit ==
    phase = "exited" => killSent


\* C32: proxy-server.js writes no tools/list and no tools/call to the
\* backend before it has written initialize and, after that,
\* notifications/initialized.
C32_ProxyHandshakeFirst ==
    \A i \in 1..Len(mcpStdin) :
        mcpStdin[i].method \in {"tools/list", "tools/call"} =>
            \E j \in 1..(i - 1), k \in 1..(i - 1) :
                /\ j < k
                /\ mcpStdin[j].method = "initialize"
                /\ mcpStdin[k].method = "notifications/initialized"

\* C33: in proxy-server.js a call that has timed out has no data listener
\* any more, and there are never more data listeners than unsettled calls.
C33_ListenersBounded ==
    /\ \A id \in 1..Len(proxyCalls) :
          proxyCalls[id].promise = "rejected" => ~proxyCalls[id].listening
    /\ Cardinality({ id \in 1..Len(proxyCalls) : proxyCalls[id].listening })
          <= Cardinality({ id \in 1..Len(proxyCalls) : proxyCalls[id].promise = "pending" })

\* the complete lines a call's listener was given that are a reply to it
\* (for queryGitHubTools: a reply with a result)
RepliesGiven(id) ==
    LET lines == SplitLines(proxyCalls[id].responseBuffer)
    IN  { i \in 1..(Len(lines) - 1) :
            /\ Parses(lines[i])
            /\ lines[i][1].id = id
            /\ proxyCalls[id].kind = "call" \/ lines[i][1].shape = "result" }

\* C34: in proxy-server.js a call whose reply line has been delivered in
\* full is settled with that reply, whatever the chunks were, whatever
\* lines came before it and whenever the call was issued.
C34_ReplySettlesCall ==
    \A id \in 1..Len(proxyCalls) :
        (proxyCalls[id].promise = "pending" \/ proxyCalls[id].promise = "resolved") =>
            \A i \in RepliesGiven(id) :
                /\ proxyCalls[id].promise = "resolved"
                /\ proxyCalls[id].got = SplitLines(proxyCalls[id].responseBuffer)[i][1].shape

\* C35: in proxy-server.js githubMcpReady is false once the backend's exit
\* has been handled, and no request is written to the backend after that.
C35_NotReadyAfterExit ==
    /\ [](mcpExited => ~githubMcpReady)
    /\ [][mcpExited => mcpStdin' = mcpStdin]_vars

====
